---- MODULE Spec2Model ----
(***************************************************************************)
(* A model of burger's two-phase call contract (acquire, then call) and of *)
(* the admission combinators built on it: ConcurrencyLimit, Buffer,        *)
(* LoadShed and RateLimit, wrapped around a service_fn leaf.               *)
(*                                                                         *)
(* A step of the model is one poll of a task's future up to its next       *)
(* suspension point (the cooperative scheduler of tokio), or one of the    *)
(* caller's own moves between two awaits: dropping a permit, dropping a    *)
(* pending future (cancellation), starting a call.                         *)
(***************************************************************************)
EXTENDS Integers, Sequences, FiniteSets, TLC

\* ------------------------------------------------------------- bounds
NumTasks == 3
MaxLimit == 2
MaxCapacity == 2
MaxRequest == 2
Permits == 2
Interval == 2
MaxTime == 5
MaxKey == 2
MaxMetric == 2
NumCallers == 1
MaxAttempts == 3
NumChildren == 2
NumWaiters == 2

Task == 1..NumTasks
Request == 1..MaxRequest
Child == 1..NumChildren

VARIABLES
    stack,       \* the composition under test, fixed at construction
    n_permits,   \* ConcurrencyLimit::new(inner, n_permits)
    capacity,    \* Buffer::new(inner, capacity)
    semaphore,   \* [limit |-> ConcurrencyLimit.semaphore, buffer |-> Buffer.semaphore]
    pc,          \* where each task's future stands
    permit,      \* the permit value each task was handed by acquire
    request,     \* the request each task passed to call
    result,      \* the response each task's call returned
    invoked,     \* how often the service_fn closure was run for the task's request
    rate,        \* the RateLimit: its semaphore, last_update and the mutex around it
    clock,       \* Instant::now()
    iteration,   \* the loop counter of a caller issuing one-shot calls in sequence
    abandoned,   \* whether an acquire has been abandoned while suspended
    balance,     \* the p2c balancer: registry, its RwLock, the worker and the change stream
    retry,       \* per task, the RetryFuture of its call and what the policy and the inner service saw
    arc,         \* the Arc around the service under Leak: strong count, and whether the Leak itself still exists
    count,       \* PendingRequests.count
    children,    \* the semaphores of the ConcurrencyLimit children of Select and Steer; the first is the one under the nested ConcurrencyLimit
    held         \* per task, the children whose permit its acquire, permit or call holds

admission == <<n_permits, capacity, semaphore, permit, request, result, invoked>>
limiter == <<rate, clock>>
vars == <<stack, n_permits, capacity, semaphore, pc, permit, request, result, invoked,
          rate, clock, iteration, abandoned, balance, retry, arc, count, children, held>>

\* --------------------------------------------- tokio::sync::Semaphore
\* permits: free permits; waiters: the FIFO queue of pending Acquire
\* futures; assigned: pending Acquire futures that were handed their permit
\* by a release and have not been polled since.
SemNew(n) == [permits |-> n, waiters |-> <<>>, assigned |-> {}]

InQueue(t, q) == \E i \in 1..Len(q) : q[i] = t

Without(q, t) == SelectSeq(q, LAMBDA x : x # t)

\* A variant of SemAddPermits that serves the waiter that came last.
RECURSIVE SemAddPermitsLast(_, _)
SemAddPermitsLast(s, k) ==
    IF k = 0 THEN s
    ELSE IF s.waiters = <<>> THEN [s EXCEPT !.permits = @ + k]
    ELSE SemAddPermitsLast([s EXCEPT !.waiters = SubSeq(@, 1, Len(@) - 1),
                                     !.assigned = @ \cup {s.waiters[Len(s.waiters)]}], k - 1)

\* A released permit goes to the head of the queue, and to the free
\* permits only when nobody waits.
RECURSIVE SemAddPermits(_, _)
SemAddPermits(s, k) ==
    IF k = 0 THEN s
    ELSE IF s.waiters = <<>> THEN [s EXCEPT !.permits = @ + k]
    ELSE SemAddPermits([s EXCEPT !.waiters = Tail(@),
                                 !.assigned = @ \cup {Head(s.waiters)}], k - 1)

\* One poll of semaphore.acquire() by task t.
SemPoll(s, t) ==
    IF t \in s.assigned
    THEN [ready |-> TRUE, sem |-> [s EXCEPT !.assigned = @ \ {t}]]
    ELSE IF InQueue(t, s.waiters)
    THEN [ready |-> FALSE, sem |-> s]
    ELSE IF s.permits > 0
    THEN [ready |-> TRUE, sem |-> [s EXCEPT !.permits = @ - 1]]
    ELSE [ready |-> FALSE, sem |-> [s EXCEPT !.waiters = Append(@, t)]]

\* A variant of SemDropAcquire in which a permit already assigned to the
\* dropped future is not released again.
SemDropAcquireLosing(s, t) ==
    IF t \in s.assigned
    THEN [s EXCEPT !.assigned = @ \ {t}]
    ELSE [s EXCEPT !.waiters = Without(@, t)]

\* Dropping a pending semaphore.acquire() future: it leaves the queue, and a
\* permit it was already assigned is released again.
SemDropAcquire(s, t) ==
    IF t \in s.assigned
    THEN SemAddPermits([s EXCEPT !.assigned = @ \ {t}], 1)
    ELSE [s EXCEPT !.waiters = Without(@, t)]

\* A variant of SemDropPermit in which the permit is forgotten.
SemDropPermitForgotten(s) == s

\* Dropping a SemaphorePermit.
SemDropPermit(s) == SemAddPermits(s, 1)

\* ------------------------------------------------------- the services
HasShed == stack \in {"shed", "shed_buffer"}
HasBuffer == stack \in {"buffer", "shed_buffer"}

\* The closure of the leaf service_fn.
Closure(x) == x + 1

\* A variant of ConcurrencyLimitAcquire that does not await the semaphore.
ConcurrencyLimitAcquireUnlimited(sems, t) ==
    [ready |-> TRUE, permit |-> <<"Limit">>, sems |-> sems]

\* ConcurrencyLimit::acquire, polled by t: the inner (service_fn) acquire
\* resolves at once, then the semaphore is awaited.
ConcurrencyLimitAcquire(sems, t) ==
    LET r == SemPoll(sems.limit, t)
    IN  [ready |-> r.ready, permit |-> <<"Limit">>,
         sems |-> [sems EXCEPT !.limit = r.sem]]

ConcurrencyLimitDropAcquire(sems, t) ==
    [sems EXCEPT !.limit = SemDropAcquire(@, t)]

\* A variant of BufferAcquire that never tries the inner acquire first.
BufferAcquireLazy(sems, t) ==
    LET r == SemPoll(sems.buffer, t)
    IN  [ready |-> r.ready, permit |-> <<"Buffered">>,
         sems |-> [sems EXCEPT !.buffer = r.sem]]

\* A variant of BufferAcquire that hands out Buffered without a slot.
BufferAcquireUnbounded(sems, t) ==
    LET inner == ConcurrencyLimitAcquire(sems, t)
    IN  IF inner.ready
        THEN [ready |-> TRUE, permit |-> <<"Eager">>, sems |-> inner.sems]
        ELSE [ready |-> TRUE, permit |-> <<"Buffered">>,
              sems |-> ConcurrencyLimitDropAcquire(inner.sems, t)]

\* A variant of BufferAcquire whose Eager permit takes a free slot too.
BufferAcquireSlotted(sems, t) ==
    LET inner == ConcurrencyLimitAcquire(sems, t)
    IN  IF inner.ready
        THEN [ready |-> TRUE, permit |-> <<"Eager">>,
              sems |-> [inner.sems EXCEPT !.buffer = SemPoll(@, t).sem]]
        ELSE LET s1 == ConcurrencyLimitDropAcquire(inner.sems, t)
                 r == SemPoll(s1.buffer, t)
             IN  [ready |-> r.ready, permit |-> <<"Buffered">>,
                  sems |-> [s1 EXCEPT !.buffer = r.sem]]

\* Buffer::acquire, polled by t for the first time: the inner acquire is
\* polled once and dropped unless ready, then a slot is awaited.
BufferAcquire(sems, t) ==
    LET inner == ConcurrencyLimitAcquire(sems, t)
    IN  IF inner.ready
        THEN [ready |-> TRUE, permit |-> <<"Eager">>, sems |-> inner.sems]
        ELSE LET s1 == ConcurrencyLimitDropAcquire(inner.sems, t)
                 r == SemPoll(s1.buffer, t)
             IN  [ready |-> r.ready, permit |-> <<"Buffered">>,
                  sems |-> [s1 EXCEPT !.buffer = r.sem]]

\* Buffer::acquire polled again after it suspended on its semaphore.
BufferResume(sems, t) ==
    LET r == SemPoll(sems.buffer, t)
    IN  [ready |-> r.ready, permit |-> <<"Buffered">>,
         sems |-> [sems EXCEPT !.buffer = r.sem]]

BufferDropAcquire(sems, t) ==
    [sems EXCEPT !.buffer = SemDropAcquire(@, t)]

\* The acquire of the service LoadShed wraps.
InnerAcquire(sems, t) ==
    IF HasBuffer THEN BufferAcquire(sems, t) ELSE ConcurrencyLimitAcquire(sems, t)

InnerDropAcquire(sems, t) ==
    IF HasBuffer THEN BufferDropAcquire(sems, t) ELSE ConcurrencyLimitDropAcquire(sems, t)

\* A variant of LoadShedAcquire that awaits the inner acquire.
LoadShedAcquireAwaiting(sems, t) ==
    LET inner == InnerAcquire(sems, t)
    IN  [ready |-> inner.ready, permit |-> <<"Some">> \o inner.permit,
         sems |-> inner.sems]

\* LoadShed::acquire: inner.acquire().now_or_never().
LoadShedAcquire(sems, t) ==
    LET inner == InnerAcquire(sems, t)
    IN  IF inner.ready
        THEN [ready |-> TRUE, permit |-> <<"Some">> \o inner.permit, sems |-> inner.sems]
        ELSE [ready |-> TRUE, permit |-> <<"None">>,
              sems |-> InnerDropAcquire(inner.sems, t)]

\* acquire of the outermost service, polled for the first time.
ServiceAcquire(sems, t) ==
    IF HasShed THEN LoadShedAcquire(sems, t) ELSE InnerAcquire(sems, t)

\* The same future polled again after a suspension.
ServiceResume(sems, t) ==
    IF HasBuffer THEN BufferResume(sems, t) ELSE ConcurrencyLimitAcquire(sems, t)

\* What a permit value owns.
Kind(p) == IF p = <<>> THEN "" ELSE p[Len(p)]
OwnsTicket(p) == Kind(p) \in {"Limit", "Eager"}
OwnsSlot(p) == Kind(p) = "Buffered"

\* Dropping a permit value drops the semaphore permits it owns.
DropPermitValue(sems, p) ==
    IF OwnsTicket(p) THEN [sems EXCEPT !.limit = SemDropPermit(@)]
    ELSE IF OwnsSlot(p) THEN [sems EXCEPT !.buffer = SemDropPermit(@)]
    ELSE sems

\* A variant of Respond that wraps every response.
RespondWrapped(v) == <<"Ok", v>>

\* Response of the outermost service for the inner response v.
Respond(v) == IF HasShed THEN <<"Ok", v>> ELSE <<v>>

\* ConcurrencyLimit::call: the inner call starts; the ticket stays with the
\* call future until it completes or is dropped.
ConcurrencyLimitCall(sems, t) ==
    [pc |-> "calling", sems |-> sems, started |-> TRUE, result |-> <<>>]

\* A variant of BufferCall that lets the slot go before the inner permit
\* has been obtained.
BufferCallEarly(sems, p, t) ==
    IF Kind(p) = "Eager"
    THEN ConcurrencyLimitCall(sems, t)
    ELSE LET r == ConcurrencyLimitAcquire(sems, t)
         IN  IF r.ready
             THEN ConcurrencyLimitCall([r.sems EXCEPT !.buffer = SemDropPermit(@)], t)
             ELSE [pc |-> "call_acquire",
                   sems |-> [r.sems EXCEPT !.buffer = SemDropPermit(@)],
                   started |-> FALSE, result |-> <<>>]

\* Buffer::call, polled by t: an Eager permit is passed on; for a Buffered
\* one the inner permit is awaited, then the slot is dropped.
BufferCall(sems, p, t) ==
    IF Kind(p) = "Eager"
    THEN ConcurrencyLimitCall(sems, t)
    ELSE LET r == ConcurrencyLimitAcquire(sems, t)
         IN  IF r.ready
             THEN ConcurrencyLimitCall([r.sems EXCEPT !.buffer = SemDropPermit(@)], t)
             ELSE [pc |-> "call_acquire", sems |-> r.sems, started |-> FALSE,
                   result |-> <<>>]

InnerCall(sems, p, t) ==
    IF HasBuffer THEN BufferCall(sems, p, t) ELSE ConcurrencyLimitCall(sems, t)

\* A variant of LoadShedCall that runs the closure on a shed request.
LoadShedCallMapped(sems, p, t, req) ==
    IF p[1] = "Some"
    THEN InnerCall(sems, Tail(p), t)
    ELSE [pc |-> "done", sems |-> sems, started |-> TRUE,
          result |-> <<"Err", Closure(req)>>]

\* LoadShed::call: Ok(inner call) for Some(permit), Err(request) for None.
LoadShedCall(sems, p, t, req) ==
    IF p[1] = "Some"
    THEN InnerCall(sems, Tail(p), t)
    ELSE [pc |-> "done", sems |-> sems, started |-> FALSE, result |-> <<"Err", req>>]

\* call of the outermost service, polled for the first time.
ServiceCall(sems, p, t, req) ==
    IF HasShed THEN LoadShedCall(sems, p, t, req) ELSE InnerCall(sems, p, t)

\* ------------------------------------------------------------ actions
\* A task starts acquire() and polls it once.
Acquire(t) ==
    /\ pc[t] = "idle"
    /\ LET r == ServiceAcquire(semaphore, t)
       IN  /\ semaphore' = r.sems
           /\ pc' = [pc EXCEPT ![t] = IF r.ready THEN "permit" ELSE "acquire"]
           /\ permit' = [permit EXCEPT ![t] = IF r.ready THEN r.permit ELSE <<>>]
    /\ UNCHANGED <<stack, held, children, count, arc, balance, retry, n_permits, capacity, request, result, invoked, limiter, iteration, abandoned>>

\* A suspended acquire() is woken by the semaphore and polled again.
PollAcquire(t) ==
    /\ pc[t] = "acquire"
    /\ LET r == ServiceResume(semaphore, t)
       IN  /\ r.ready
           /\ semaphore' = r.sems
           /\ pc' = [pc EXCEPT ![t] = "permit"]
           /\ permit' = [permit EXCEPT ![t] = r.permit]
    /\ UNCHANGED <<stack, held, children, count, arc, balance, retry, n_permits, capacity, request, result, invoked, limiter, iteration, abandoned>>

\* The caller abandons a suspended acquire(): its future is dropped.
CancelAcquire(t) ==
    /\ pc[t] = "acquire"
    /\ semaphore' = InnerDropAcquire(semaphore, t)
    /\ pc' = [pc EXCEPT ![t] = "idle"]
    /\ UNCHANGED <<stack, held, children, count, arc, balance, retry, n_permits, capacity, permit, request, result, invoked, limiter, iteration>>

\* The caller drops a permit without calling.
DropPermit(t) ==
    /\ pc[t] = "permit"
    /\ semaphore' = DropPermitValue(semaphore, permit[t])
    /\ pc' = [pc EXCEPT ![t] = "idle"]
    /\ permit' = [permit EXCEPT ![t] = <<>>]
    /\ UNCHANGED <<stack, held, children, count, arc, balance, retry, n_permits, capacity, request, result, invoked, limiter, iteration, abandoned>>

\* The caller starts Service::call(permit, req) and polls it once.  The
\* permit is moved into the call; permit[t] keeps a record of it.
Call(t, req) ==
    /\ pc[t] = "permit"
    /\ LET r == ServiceCall(semaphore, permit[t], t, req)
       IN  /\ semaphore' = r.sems
           /\ pc' = [pc EXCEPT ![t] = r.pc]
           /\ result' = [result EXCEPT ![t] = r.result]
           /\ invoked' = [invoked EXCEPT ![t] = IF r.started THEN @ + 1 ELSE @]
    /\ request' = [request EXCEPT ![t] = req]
    /\ UNCHANGED <<stack, held, children, count, arc, balance, retry, n_permits, capacity, permit, limiter, iteration, abandoned>>

\* Buffer::call woken while awaiting service.acquire(): the slot is dropped
\* and the inner call starts.
PollCall(t) ==
    /\ pc[t] = "call_acquire"
    /\ LET r == BufferCall(semaphore, <<"Buffered">>, t)
       IN  /\ r.started
           /\ semaphore' = r.sems
           /\ pc' = [pc EXCEPT ![t] = r.pc]
    /\ invoked' = [invoked EXCEPT ![t] = @ + 1]
    /\ UNCHANGED <<stack, held, children, count, arc, balance, retry, n_permits, capacity, permit, request, result, limiter, iteration, abandoned>>

\* The inner call completes: the response travels up, the ticket is dropped.
Finish(t) ==
    /\ pc[t] = "calling"
    /\ semaphore' = [semaphore EXCEPT !.limit = SemDropPermit(@)]
    /\ pc' = [pc EXCEPT ![t] = "done"]
    /\ result' = [result EXCEPT ![t] = Respond(Closure(request[t]))]
    /\ UNCHANGED <<stack, held, children, count, arc, balance, retry, n_permits, capacity, permit, request, invoked, limiter, iteration, abandoned>>

\* The caller drops a pending call future.
CancelCall(t) ==
    /\ pc[t] \in {"call_acquire", "calling"}
    /\ semaphore' =
          IF pc[t] = "calling"
          THEN [semaphore EXCEPT !.limit = SemDropPermit(@)]
          ELSE [ConcurrencyLimitDropAcquire(semaphore, t)
                    EXCEPT !.buffer = SemDropPermit(@)]
    /\ pc' = [pc EXCEPT ![t] = "idle"]
    /\ permit' = [permit EXCEPT ![t] = <<>>]
    /\ request' = [request EXCEPT ![t] = 0]
    /\ invoked' = [invoked EXCEPT ![t] = 0]
    /\ UNCHANGED <<stack, held, children, count, arc, balance, retry, n_permits, capacity, result, limiter, iteration, abandoned>>

\* The caller takes the response and is free to issue its next request.
Reset(t) ==
    /\ pc[t] = "done"
    /\ pc' = [pc EXCEPT ![t] = "idle"]
    /\ permit' = [permit EXCEPT ![t] = <<>>]
    /\ request' = [request EXCEPT ![t] = 0]
    /\ result' = [result EXCEPT ![t] = <<>>]
    /\ invoked' = [invoked EXCEPT ![t] = 0]
    /\ UNCHANGED <<stack, held, children, count, arc, balance, retry, n_permits, capacity, semaphore, limiter, iteration, abandoned>>

\* ---------------------------------------------------------- RateLimit
\* The RateLimit struct (semaphore, last_update behind a tokio Mutex, which
\* is a one-permit semaphore plus the task holding its guard), the local
\* `now` of the refill loop of the guard holder, and three records of what
\* happened: refills (refills done so far), issued (tickets handed out by
\* the latest refill: assigned to waiters or left free) and calls (calls
\* made since the latest refill).
RateLimitNew(clk) ==
    [semaphore |-> SemNew(Permits), mutex |-> SemNew(1), guard |-> 0,
     last_update |-> clk, now |-> 0, refills |-> 0, issued |-> Permits, calls |-> 0]

\* semaphore.forget_permits(usize::MAX): the free permits are removed.
SemForgetPermits(s) == [s EXCEPT !.permits = 0]

\* One refill: remove all permits, then add new ones.
Refill(r) ==
    LET s1 == SemForgetPermits(r.semaphore)
        s2 == SemAddPermits(s1, Permits)
    IN  [r EXCEPT !.semaphore = s2,
                  !.refills = @ + 1,
                  !.issued = s2.permits + Cardinality(s2.assigned \ s1.assigned),
                  !.calls = 0]

\* A variant of RefillLoop that sleeps and never refills.
RefillLoopSleeping(r, now, clk) == [r EXCEPT !.now = now]

\* The refill loop of the guard holder from the sleep of an iteration whose
\* `now` was taken as `now`, polled at time clk: sleep until
\* last_update + interval, refill, store `now` as last_update, and again.
RECURSIVE RefillLoop(_, _, _)
RefillLoop(r, now, clk) ==
    IF clk < r.last_update + Interval
    THEN [r EXCEPT !.now = now]
    ELSE RefillLoop([Refill(r) EXCEPT !.last_update = now], clk, clk)

\* One poll of `fut` by t: lock last_update, then loop.
PollFut(r, t, clk) ==
    IF r.guard = t
    THEN RefillLoop(r, r.now, clk)
    ELSE LET l == SemPoll(r.mutex, t)
         IN  IF l.ready
             THEN RefillLoop([r EXCEPT !.mutex = l.sem, !.guard = t], clk, clk)
             ELSE [r EXCEPT !.mutex = l.sem]

\* A variant of DropFut that leaves the lock with the acquire that ended.
DropFutKeeping(r, t) ==
    IF r.guard = t
    THEN r
    ELSE [r EXCEPT !.mutex = SemDropAcquire(@, t)]

\* Dropping `fut`: the guard is released, or the pending lock() is dropped.
DropFut(r, t) ==
    IF r.guard = t
    THEN [r EXCEPT !.guard = 0, !.now = 0, !.mutex = SemDropPermit(@)]
    ELSE [r EXCEPT !.mutex = SemDropAcquire(@, t)]

\* RateLimit::acquire polled by t at time clk: select! polls its two
\* branches starting from `first`, and completes when the semaphore branch
\* is ready; `fut` never completes.  The inner (service_fn) acquire that
\* follows resolves at once.
RateLimitAcquire(r, t, clk, first) ==
    IF first = "acquire"
    THEN LET a == SemPoll(r.semaphore, t)
         IN  IF a.ready
             THEN [ready |-> TRUE, rate |-> DropFut([r EXCEPT !.semaphore = a.sem], t)]
             ELSE [ready |-> FALSE,
                   rate |-> PollFut([r EXCEPT !.semaphore = a.sem], t, clk)]
    ELSE LET r1 == PollFut(r, t, clk)
             a == SemPoll(r1.semaphore, t)
         IN  IF a.ready
             THEN [ready |-> TRUE, rate |-> DropFut([r1 EXCEPT !.semaphore = a.sem], t)]
             ELSE [ready |-> FALSE, rate |-> [r1 EXCEPT !.semaphore = a.sem]]

\* Dropping a pending RateLimit::acquire future.
RateLimitDropAcquire(r, t) ==
    DropFut([r EXCEPT !.semaphore = SemDropAcquire(@, t)], t)

\* A variant of RateLimitCall that drops the ticket instead of forgetting it.
RateLimitCallReturning(r) ==
    [r EXCEPT !.calls = @ + 1, !.semaphore = SemDropPermit(@)]

\* RateLimit::call: the ticket is forgotten, then the inner call is made.
RateLimitCall(r) == [r EXCEPT !.calls = @ + 1]

\* What wakes a task suspended in RateLimit::acquire: a ticket, the lock, or
\* the timer of its sleep.
Woken(t) ==
    \/ t \in rate.semaphore.assigned
    \/ t \in rate.mutex.assigned
    \/ rate.guard = t /\ clock >= rate.last_update + Interval

Order == {"acquire", "fut"}

\* A task starts RateLimit::acquire and polls it once.
RateAcquire(t, first) ==
    /\ pc[t] = "idle"
    /\ LET r == RateLimitAcquire(rate, t, clock, first)
       IN  /\ rate' = r.rate
           /\ pc' = [pc EXCEPT ![t] = IF r.ready THEN "permit" ELSE "acquire"]
    /\ UNCHANGED <<stack, held, children, count, arc, balance, retry, admission, clock, iteration, abandoned>>

\* A suspended RateLimit::acquire is woken and polled again.
RatePoll(t, first) ==
    /\ pc[t] = "acquire"
    /\ Woken(t)
    /\ LET r == RateLimitAcquire(rate, t, clock, first)
       IN  /\ rate' = r.rate
           /\ pc' = [pc EXCEPT ![t] = IF r.ready THEN "permit" ELSE "acquire"]
    /\ UNCHANGED <<stack, held, children, count, arc, balance, retry, admission, clock, iteration, abandoned>>

\* The caller abandons a suspended RateLimit::acquire.
RateCancel(t) ==
    /\ pc[t] = "acquire"
    /\ rate' = RateLimitDropAcquire(rate, t)
    /\ pc' = [pc EXCEPT ![t] = "idle"]
    /\ UNCHANGED <<stack, held, children, count, arc, balance, retry, admission, clock, iteration>>

\* The caller drops a RateLimitPermit without calling: the ticket returns.
RateDrop(t) ==
    /\ pc[t] = "permit"
    /\ rate' = [rate EXCEPT !.semaphore = SemDropPermit(@)]
    /\ pc' = [pc EXCEPT ![t] = "idle"]
    /\ UNCHANGED <<stack, held, children, count, arc, balance, retry, admission, clock, iteration, abandoned>>

\* The caller calls with its permit; the leaf answers in the same poll.
RateCall(t) ==
    /\ pc[t] = "permit"
    /\ rate' = RateLimitCall(rate)
    /\ pc' = [pc EXCEPT ![t] = "idle"]
    /\ UNCHANGED <<stack, held, children, count, arc, balance, retry, admission, clock, abandoned>>

\* RateLimit::call with the request and the response in view: the ticket
\* is forgotten and the inner call, made with the request, answers in the
\* same poll.
RateCallWith(t, req) ==
    /\ pc[t] = "permit"
    /\ rate' = RateLimitCall(rate)
    /\ pc' = [pc EXCEPT ![t] = "done"]
    /\ request' = [request EXCEPT ![t] = req]
    /\ invoked' = [invoked EXCEPT ![t] = @ + 1]
    /\ result' = [result EXCEPT ![t] = <<Closure(req)>>]
    /\ UNCHANGED <<stack, held, children, count, arc, balance, retry, n_permits, capacity, semaphore, permit, clock, iteration, abandoned>>

\* Time passes.
Tick ==
    /\ clock < MaxTime
    /\ clock' = clock + 1
    /\ UNCHANGED <<stack, held, children, count, arc, balance, retry, admission, pc, rate, iteration, abandoned>>

\* Time passes beyond MaxTime: every stored Instant lies one tick further
\* in the past, and the count of refills starts again.  An Instant MaxTime
\* old is older than Interval, whatever its age.
Advance ==
    /\ stack = "rate"
    /\ clock = MaxTime
    /\ rate' = [rate EXCEPT !.last_update = IF @ > 0 THEN @ - 1 ELSE 0,
                            !.now = IF @ > 0 THEN @ - 1 ELSE 0,
                            !.refills = 0]
    /\ UNCHANGED <<stack, held, children, count, arc, balance, retry, admission, pc, clock, iteration, abandoned>>

\* ------------------------------------------------------- balance::p2c
IsBalance == stack = "balance"

Caller == 1..NumCallers
Key == 1..MaxKey
Metric == 1..MaxMetric

\* A backend is known by its constant Load::load; a registry entry is
\* <<key, backend>>, a change <<"Insert", key, backend>> or <<"Remove", key>>.
Change == {<<"Insert", k, m>> : k \in Key, m \in Metric} \cup {<<"Remove", k>> : k \in Key}

\* IndexMap: entries in insertion order.
IndexOf(services, k) ==
    IF \E i \in 1..Len(services) : services[i][1] = k
    THEN CHOOSE i \in 1..Len(services) : services[i][1] = k
    ELSE 0

\* A variant of IndexMapInsert that adds an entry whatever the key.
IndexMapInsertAppending(services, k, m) == Append(services, <<k, m>>)

\* IndexMap::insert: an existing key keeps its place and gets the new value.
IndexMapInsert(services, k, m) ==
    IF IndexOf(services, k) = 0
    THEN Append(services, <<k, m>>)
    ELSE [services EXCEPT ![IndexOf(services, k)] = <<k, m>>]

\* IndexMap::swap_remove: the last entry takes the place of the removed one.
IndexMapSwapRemove(services, k) ==
    LET i == IndexOf(services, k)
        n == Len(services)
    IN  IF i = 0 THEN services
        ELSE IF i = n THEN SubSeq(services, 1, n - 1)
        ELSE SubSeq([services EXCEPT ![i] = services[n]], 1, n - 1)

\* A mutation that leaves an existing key alone on Insert.
MutateKeepingFirst(services, change) ==
    IF change[1] = "Insert"
    THEN IF IndexOf(services, change[2]) = 0
         THEN Append(services, <<change[2], change[3]>>)
         ELSE services
    ELSE IndexMapSwapRemove(services, change[2])

\* The mutation of one loop iteration of the worker.
Mutate(services, change) ==
    IF change[1] = "Insert"
    THEN IndexMapInsert(services, change[2], change[3])
    ELSE IndexMapSwapRemove(services, change[2])

\* tokio::sync::RwLock: the worker is its only writer (0 in the queue).
\* Waiters are served in FIFO order; readers holds the tasks that hold or
\* were handed a read guard.
Worker == 0

LockNew == [writer |-> TRUE, readers |-> {}, waiters |-> <<>>]

RECURSIVE LockGrant(_)
LockGrant(l) ==
    IF l.waiters = <<>> \/ l.writer THEN l
    ELSE IF Head(l.waiters) = Worker
    THEN IF l.readers = {}
         THEN [l EXCEPT !.writer = TRUE, !.waiters = Tail(@)]
         ELSE l
    ELSE LockGrant([l EXCEPT !.readers = @ \cup {Head(l.waiters)}, !.waiters = Tail(@)])

\* A variant of LockRead that hands out a read guard whatever the state of
\* the lock.
LockReadDirty(l, t) == [l EXCEPT !.readers = @ \cup {t}]

\* One poll of read() by t that is not queued yet.
LockRead(l, t) ==
    IF ~l.writer /\ l.waiters = <<>>
    THEN [l EXCEPT !.readers = @ \cup {t}]
    ELSE [l EXCEPT !.waiters = Append(@, t)]

\* One poll of write() by the worker that is not queued yet.
LockWrite(l) ==
    IF ~l.writer /\ l.readers = {} /\ l.waiters = <<>>
    THEN [l EXCEPT !.writer = TRUE]
    ELSE [l EXCEPT !.waiters = Append(@, Worker)]

LockDropRead(l, t) == LockGrant([l EXCEPT !.readers = @ \ {t}])
LockDropWrite(l) == LockGrant([l EXCEPT !.writer = FALSE])

\* p2c(changes): the registry is empty and the worker holds empty_guard.
\* expected and pattern record what the worker has applied: the value last
\* inserted under each key (0: absent), and how far the latest changes
\* match Insert(k, a), Insert(k, b), Remove(k) for the first key and two
\* different backends; late records that an acquire started after the
\* worker had finished has returned a permit.
BalanceNew ==
    [services |-> <<>>, lock |-> LockNew, empty_guard |-> TRUE,
     worker |-> "next", new_change |-> <<>>, changes |-> "open", output |-> <<>>,
     site |-> 0,
     late |-> FALSE,
     expected |-> [k \in Key |-> 0], pattern |-> 0]

Expect(expected, change) ==
    [expected EXCEPT ![change[2]] = IF change[1] = "Insert" THEN change[3] ELSE 0]

Track(pattern, change) ==
    IF pattern = 0 /\ change = <<"Insert", 1, 1>> THEN 1
    ELSE IF pattern = 1 /\ change = <<"Insert", 1, 2>> THEN 2
    ELSE IF pattern = 2 /\ change = <<"Remove", 1>> THEN 3
    ELSE IF change = <<"Insert", 1, 1>> THEN 1
    ELSE 0

\* The candidates whose acquire resolves when first polled, in registry
\* order: those of the keys in `ready`.
Candidates(b, ready) == SelectSeq(b.services, LAMBDA e : e[1] \in ready)

\* A selection that keeps the candidate that resolved first.
LowestFirst(first, second) == first

\* A selection that prefers the first candidate on equal loads.
LowestOrFirst(first, second) == IF first[2] <= second[2] THEN first ELSE second

\* Choose lowest load permit.
Lowest(first, second) == IF first[2] < second[2] THEN first ELSE second

\* A selection that gives the read guard back when it suspends.
BalanceInnerAcquireUnguarded(b, t, order) ==
    IF b.services = <<>>
    THEN [pc |-> "panicked", permit |-> <<>>, lock |-> LockDropRead(b.lock, t)]
    ELSE IF order = <<>>
    THEN [pc |-> "select", permit |-> <<>>, lock |-> LockDropRead(b.lock, t)]
    ELSE IF Len(order) = 1
    THEN [pc |-> "permit", permit |-> order[1], lock |-> LockDropRead(b.lock, t)]
    ELSE [pc |-> "permit", permit |-> Lowest(order[1], order[2]),
          lock |-> LockDropRead(b.lock, t)]

\* A selection that waits for a second candidate when only one resolved.
BalanceInnerAcquireAwaitingSecond(b, t, order) ==
    IF b.services = <<>>
    THEN [pc |-> "panicked", permit |-> <<>>, lock |-> LockDropRead(b.lock, t)]
    ELSE IF Len(order) <= 1
    THEN [pc |-> "select", permit |-> <<>>, lock |-> b.lock]
    ELSE [pc |-> "permit", permit |-> Lowest(order[1], order[2]),
          lock |-> LockDropRead(b.lock, t)]

\* BalanceInner::acquire under the read guard of t, with the candidates
\* resolving in the order `order`: the first permit is awaited, a second
\* one is taken if it is there, the guard is dropped on the way out.
\* An empty registry makes permits.next() yield None, which unwrap panics on.
BalanceInnerAcquire(b, t, order) ==
    IF b.services = <<>>
    THEN [pc |-> "panicked", permit |-> <<>>, lock |-> LockDropRead(b.lock, t)]
    ELSE IF order = <<>>
    THEN [pc |-> "select", permit |-> <<>>, lock |-> b.lock]
    ELSE IF Len(order) = 1
    THEN [pc |-> "permit", permit |-> order[1], lock |-> LockDropRead(b.lock, t)]
    ELSE [pc |-> "permit", permit |-> Lowest(order[1], order[2]),
          lock |-> LockDropRead(b.lock, t)]

\* Balance::acquire polled by t for the first time: read(), then the
\* candidates are polled in registry order; the backends of the keys in
\* `ready` resolve, the others are pending.
BalanceAcquire(t, ready) ==
    /\ IsBalance
    /\ pc[t] = "idle"
    /\ LET l == LockRead(balance.lock, t)
           b == [balance EXCEPT !.lock = l]
       IN  IF t \in l.readers
           THEN LET r == BalanceInnerAcquire(b, t, Candidates(b, ready))
                IN  /\ pc' = [pc EXCEPT ![t] = r.pc]
                    /\ permit' = [permit EXCEPT ![t] = r.permit]
                    /\ balance' = [b EXCEPT !.lock = r.lock,
                                            !.late = @ \/ (b.worker = "done" /\ r.pc = "permit")]
           ELSE /\ pc' = [pc EXCEPT ![t] = "read"]
                /\ permit' = permit
                /\ balance' = b
    /\ UNCHANGED <<stack, held, children, count, arc, n_permits, capacity, semaphore, request, result, invoked,
                   limiter, iteration, abandoned, retry>>

\* The acquire of t is polled after it was handed the read guard.
BalanceRead(t, ready) ==
    /\ IsBalance
    /\ pc[t] = "read"
    /\ t \in balance.lock.readers
    /\ LET r == BalanceInnerAcquire(balance, t, Candidates(balance, ready))
       IN  /\ pc' = [pc EXCEPT ![t] = r.pc]
           /\ permit' = [permit EXCEPT ![t] = r.permit]
           /\ balance' = [balance EXCEPT !.lock = r.lock]
    /\ UNCHANGED <<stack, held, children, count, arc, n_permits, capacity, semaphore, request, result, invoked,
                   limiter, iteration, abandoned, retry>>

\* The acquire of t, suspended on permits.next(), is woken by candidates
\* that became acquirable: they are polled in the order they woke it
\* (first = second: only one did).
BalanceSelect(t, first, second) ==
    /\ IsBalance
    /\ pc[t] = "select"
    /\ LET c == balance.services
       IN  /\ first \in 1..Len(c)
           /\ second \in 1..Len(c)
           /\ LET order == IF first = second THEN <<c[first]>> ELSE <<c[first], c[second]>>
                  r == BalanceInnerAcquire(balance, t, order)
              IN  /\ pc' = [pc EXCEPT ![t] = r.pc]
                  /\ permit' = [permit EXCEPT ![t] = r.permit]
                  /\ balance' = [balance EXCEPT !.lock = r.lock]
    /\ UNCHANGED <<stack, held, children, count, arc, n_permits, capacity, semaphore, request, result, invoked,
                   limiter, iteration, abandoned, retry>>

\* Balance::load_profile, polled by t for the first time or after it was
\* handed the read guard: under the guard the loads of the registered
\* backends are collected in registry order, then the guard is dropped.
LoadProfile(t) ==
    /\ IsBalance
    /\ \/ pc[t] = "idle"
       \/ pc[t] = "profile" /\ t \in balance.lock.readers
    /\ LET l == IF pc[t] = "idle" THEN LockRead(balance.lock, t) ELSE balance.lock
       IN  IF t \in l.readers
           THEN /\ result' = [result EXCEPT ![t] =
                        [i \in 1..Len(balance.services) |-> balance.services[i][2]]]
                /\ balance' = [balance EXCEPT !.lock = LockDropRead(l, t)]
                /\ pc' = [pc EXCEPT ![t] = "done"]
           ELSE /\ result' = result
                /\ balance' = [balance EXCEPT !.lock = l]
                /\ pc' = [pc EXCEPT ![t] = "profile"]
    /\ UNCHANGED <<stack, held, children, count, arc, n_permits, capacity, semaphore, permit, request, invoked,
                   limiter, iteration, abandoned, retry>>

\* Balance::call (or the drop of the permit): the caller is done with it.
BalanceCall(t) ==
    /\ IsBalance
    /\ pc[t] = "permit"
    /\ pc' = [pc EXCEPT ![t] = "idle"]
    /\ permit' = [permit EXCEPT ![t] = <<>>]
    /\ balance' = balance
    /\ UNCHANGED <<stack, held, children, count, arc, n_permits, capacity, semaphore, request, result, invoked,
                   limiter, iteration, abandoned, retry>>

\* A worker that keeps the guard it holds for ever when it returns.
WorkerTerminateHolding(b, site) ==
    [b EXCEPT !.worker = "done", !.changes = "closed",
              !.output = <<"Err", "Terminated">>, !.site = site,
              !.new_change = <<>>]

\* The stream yielded None: the worker returns Err(Terminated) at line
\* `site`; the guard it holds is dropped with its locals.
WorkerTerminate(b, site) ==
    [b EXCEPT !.worker = "done", !.changes = "closed",
              !.output = <<"Err", "Terminated">>, !.site = site,
              !.new_change = <<>>, !.empty_guard = FALSE,
              !.lock = IF b.lock.writer THEN LockDropWrite(@) ELSE @]

\* Lines 242-251: the worker, holding the guard, applies one change.
WorkerMutate(b, change) ==
    [b EXCEPT !.services = Mutate(@, change),
              !.expected = Expect(@, change),
              !.pattern = Track(@, change),
              !.new_change = <<>>,
              !.worker = "drain"]

\* The worker, suspended on changes.next(), is woken by the stream: with
\* None (the stream ended), or with a change, for which it takes the guard
\* it retained or asks for the write lock, and which it applies once it
\* holds the guard.
WorkerNext(change) ==
    /\ IsBalance
    /\ balance.worker = "next"
    /\ IF change = <<"None">>
       THEN balance' = WorkerTerminate(balance, 276)
       ELSE IF balance.empty_guard
       THEN balance' = WorkerMutate([balance EXCEPT !.empty_guard = FALSE], change)
       ELSE LET l == LockWrite(balance.lock)
            IN  IF l.writer
                THEN balance' = WorkerMutate([balance EXCEPT !.lock = l], change)
                ELSE balance' = [balance EXCEPT !.lock = l, !.new_change = change,
                                                !.worker = "write"]
    /\ UNCHANGED <<stack, held, children, count, arc, n_permits, capacity, semaphore, pc, permit, request, result,
                   invoked, limiter, iteration, abandoned, retry>>

\* The worker, suspended on inner.write(), was handed the lock and applies
\* the change it carries.
WorkerWrite ==
    /\ IsBalance
    /\ balance.worker = "write"
    /\ balance.lock.writer
    /\ balance' = WorkerMutate(balance, balance.new_change)
    /\ UNCHANGED <<stack, held, children, count, arc, n_permits, capacity, semaphore, pc, permit, request, result,
                   invoked, limiter, iteration, abandoned, retry>>

\* A loop that lets the guard go after every change it applies.
WorkerLoopReleasing(b, next) ==
    IF next = <<"None">>
    THEN WorkerTerminate(b, 260)
    ELSE IF next # <<>>
    THEN [WorkerMutate(b, next) EXCEPT !.lock = LockDropWrite(@)]
    ELSE IF b.services = <<>>
    THEN [b EXCEPT !.empty_guard = TRUE, !.worker = "next"]
    ELSE [b EXCEPT !.worker = "next", !.lock = LockDropWrite(@)]

\* A loop that returns when the stream is pending.
WorkerLoopGivingUp(b, next) ==
    IF next = <<"None">>
    THEN WorkerTerminate(b, 260)
    ELSE IF next # <<>>
    THEN WorkerMutate(b, next)
    ELSE [b EXCEPT !.worker = "done", !.output = <<"Err", "Terminated">>,
                   !.site = 271, !.lock = LockDropWrite(@)]

\* A loop that retains the guard whenever the stream is pending.
WorkerLoopRetaining(b, next) ==
    IF next = <<"None">>
    THEN WorkerTerminate(b, 260)
    ELSE IF next # <<>>
    THEN WorkerMutate(b, next)
    ELSE [b EXCEPT !.empty_guard = TRUE, !.worker = "next"]

\* Lines 253-273, after a mutation: changes.next().now_or_never() yields
\* `next`: another change, which the next iteration applies at once, None
\* (the stream ended) or nothing (the stream is pending), on which the guard
\* is retained if the registry is empty and released otherwise.
WorkerLoop(b, next) ==
    IF next = <<"None">>
    THEN WorkerTerminate(b, 260)
    ELSE IF next # <<>>
    THEN WorkerMutate(b, next)
    ELSE IF b.services = <<>>
    THEN [b EXCEPT !.empty_guard = TRUE, !.worker = "next"]
    ELSE [b EXCEPT !.worker = "next", !.lock = LockDropWrite(@)]

WorkerDrain(next) ==
    /\ IsBalance
    /\ balance.worker = "drain"
    /\ balance' = WorkerLoop(balance, next)
    /\ UNCHANGED <<stack, held, children, count, arc, n_permits, capacity, semaphore, pc, permit, request, result,
                   invoked, limiter, iteration, abandoned, retry>>

\* --------------------------------------------------------------- Retry
\* Retry<S, P> over an inner service whose acquire and call may suspend and
\* whose responses are good or bad.  The policy of "retry_count" asks for a
\* retry until it has classified MaxAttempts responses and then accepts;
\* the one of "retry_finite" accepts a good response, asks for a retry on a
\* bad one, and gives up on the bad response number MaxAttempts.
IsRetry == stack \in {"retry_count", "retry_finite"}

Quality == {"good", "bad"}

\* Per caller: the RetryFutureInner state and the Oneshot state of its
\* call, the RequestState of the policy (responses classified so far), the
\* response at hand and the result of classify; and what the inner service
\* and the policy have seen for this request: inner acquires made, inner
\* calls made, the permits the calls consumed (a permit is known by the
\* number of the acquire that returned it), the responses the calls gave,
\* the verdicts, and whether the policy gave up.
RetryNew ==
    [inner |-> "none", oneshot |-> "none", state |-> 0, response |-> <<>>,
     classify |-> <<>>, acquires |-> 0, calls |-> 0, used |-> <<>>,
     responses |-> <<>>, retries |-> 0, accepts |-> 0, gave_up |-> FALSE]

\* Policy::create: the RequestState of a new request.
PolicyCreate == 0

\* Policy::classify: the RequestState is updated through &mut, the future
\* resolves to Ok(()) (return this response) or Err(request) (retry).  A
\* policy that gives up has nothing to return but Ok(()).
PolicyClassify(state, response) ==
    LET attempts == state + 1
    IN  IF stack = "retry_count"
        THEN [state |-> attempts, gave_up |-> FALSE,
              result |-> IF attempts >= MaxAttempts THEN <<"Ok">> ELSE <<"Err", "request">>]
        ELSE IF response[2] = "good"
        THEN [state |-> attempts, gave_up |-> FALSE, result |-> <<"Ok">>]
        ELSE IF attempts < MaxAttempts
        THEN [state |-> attempts, gave_up |-> FALSE, result |-> <<"Err", "request">>]
        ELSE [state |-> attempts, gave_up |-> TRUE, result |-> <<"Ok">>]

\* Policy::error: the error of the policy for a request it gave up on.
PolicyError(state) == <<"MaxAttempts", state>>

\* S::acquire of the inner service is called.
InnerServiceAcquire(r) == [r EXCEPT !.acquires = @ + 1]

\* S::call of the inner service consumes the permit `id`.
InnerServiceCall(r, id) == [r EXCEPT !.calls = @ + 1, !.used = Append(@, id)]

\* The classify future is made for the response of the latest inner call.
Classifying(r, quality) ==
    LET response == <<r.calls, quality>>
        c == PolicyClassify(r.state, response)
    IN  [r EXCEPT !.inner = "Classifying", !.oneshot = "none",
                  !.state = c.state, !.response = response,
                  !.responses = Append(@, response),
                  !.classify = c.result,
                  !.gave_up = c.gave_up,
                  !.retries = IF c.result[1] = "Err" THEN @ + 1 ELSE @,
                  !.accepts = IF c.result[1] = "Ok" THEN @ + 1 ELSE @]

\* RetryFuture::poll, Initial: the policy creates its state and the inner
\* call is made with the permit of Retry::acquire.
RetryInitial(r, id) ==
    [InnerServiceCall(r, id) EXCEPT !.inner = "Calling", !.state = PolicyCreate]

\* RetryFuture::poll, Calling: the inner call has answered.
RetryCalling(r, quality) == Classifying(r, quality)

\* A retry that calls again with the permit consumed last.
RetryRetryingReusing(r, quality) ==
    IF r.oneshot = "Acquire"
    THEN [InnerServiceCall(r, r.used[Len(r.used)]) EXCEPT !.oneshot = "Call"]
    ELSE Classifying(r, quality)

\* A retry that hands the policy the response of the first call again.
RetryRetryingStale(r, quality) ==
    IF r.oneshot = "Acquire"
    THEN [InnerServiceCall(r, r.acquires) EXCEPT !.oneshot = "Call"]
    ELSE [Classifying(r, quality) EXCEPT !.response = r.response]

\* RetryFuture::poll, Retrying: Oneshot::poll; its acquire has resolved and
\* the inner call is made with the fresh permit, or its call has answered.
RetryRetrying(r, quality) ==
    IF r.oneshot = "Acquire"
    THEN [InnerServiceCall(r, r.acquires) EXCEPT !.oneshot = "Call"]
    ELSE Classifying(r, quality)

\* RetryFuture::poll, Classifying: Ok(_) returns the response, Err(request)
\* starts service.oneshot(request), which calls the inner acquire.
RetryClassifying(r) ==
    IF r.classify[1] = "Ok"
    THEN [r EXCEPT !.inner = "Returned", !.classify = <<>>]
    ELSE [InnerServiceAcquire(r) EXCEPT !.inner = "Retrying", !.oneshot = "Acquire",
                                        !.response = <<>>, !.classify = <<>>]

\* Retry::acquire: the inner acquire is called and RetryAcquire is returned.
RetryAcquire(t) ==
    /\ IsRetry
    /\ pc[t] = "idle"
    /\ retry' = [retry EXCEPT ![t] = InnerServiceAcquire(RetryNew)]
    /\ pc' = [pc EXCEPT ![t] = "acquire"]
    /\ UNCHANGED <<stack, held, children, count, arc, n_permits, capacity, semaphore, permit, request, result, invoked,
                   limiter, iteration, abandoned, balance>>

\* RetryAcquire::poll when the inner acquire has resolved: RetryPermit
\* wraps the inner permit.
RetryAcquirePoll(t) ==
    /\ IsRetry
    /\ pc[t] = "acquire"
    /\ pc' = [pc EXCEPT ![t] = "permit"]
    /\ permit' = [permit EXCEPT ![t] = <<"retry", retry[t].acquires>>]
    /\ UNCHANGED <<stack, held, children, count, arc, n_permits, capacity, semaphore, request, result, invoked,
                   limiter, iteration, abandoned, balance, retry>>

\* Retry::call: RetryFuture is made in Initial with the inner permit.
RetryCall(t, req) ==
    /\ IsRetry
    /\ pc[t] = "permit"
    /\ pc' = [pc EXCEPT ![t] = "calling"]
    /\ request' = [request EXCEPT ![t] = req]
    /\ retry' = [retry EXCEPT ![t].inner = "Initial"]
    /\ UNCHANGED <<stack, held, children, count, arc, n_permits, capacity, semaphore, permit, result, invoked,
                   limiter, iteration, abandoned, balance>>

\* One turn of the loop of RetryFuture::poll whose future is ready; the
\* inner service answers with a response of `quality`.
RetryPoll(t, quality) ==
    /\ IsRetry
    /\ pc[t] = "calling"
    /\ LET r == retry[t]
           next == IF r.inner = "Initial" THEN RetryInitial(r, permit[t][2])
                   ELSE IF r.inner = "Calling" THEN RetryCalling(r, quality)
                   ELSE IF r.inner = "Retrying" THEN RetryRetrying(r, quality)
                   ELSE RetryClassifying(r)
       IN  /\ retry' = [retry EXCEPT ![t] = next]
           /\ permit' = [permit EXCEPT ![t] = <<>>]
           /\ IF next.inner = "Returned"
              THEN /\ pc' = [pc EXCEPT ![t] = "done"]
                   /\ result' = [result EXCEPT ![t] = <<"Ok", r.response>>]
              ELSE UNCHANGED <<pc, result>>
    /\ UNCHANGED <<stack, held, children, count, arc, n_permits, capacity, semaphore, request, invoked,
                   limiter, iteration, abandoned, balance>>

\* The caller takes the result and starts over.
RetryDone(t) ==
    /\ IsRetry
    /\ pc[t] = "done"
    /\ pc' = [pc EXCEPT ![t] = "idle"]
    /\ result' = [result EXCEPT ![t] = <<>>]
    /\ request' = [request EXCEPT ![t] = 0]
    /\ retry' = [retry EXCEPT ![t] = RetryNew]
    /\ UNCHANGED <<stack, held, children, count, arc, n_permits, capacity, semaphore, permit, invoked,
                   limiter, iteration, abandoned, balance>>

\* --------------------------------------------------------------- Leak
\* Arc::new(svc).leak(): the Leak holds the only Arc of the service.  The
\* service is destroyed when the strong count reaches 0.
LeakNew == [strong |-> 1, entry |-> TRUE]

\* Leak::acquire, polled by t for the first time: the Arc is cloned into
\* the permit under construction, then the inner acquire is awaited.
LeakAcquire(t) ==
    /\ stack = "leak"
    /\ pc[t] = "idle"
    /\ arc.entry
    /\ LET r == ConcurrencyLimitAcquire(semaphore, t)
       IN  /\ semaphore' = r.sems
           /\ pc' = [pc EXCEPT ![t] = IF r.ready THEN "permit" ELSE "acquire"]
           /\ permit' = [permit EXCEPT ![t] = IF r.ready THEN <<"Leak">> \o r.permit ELSE <<>>]
    /\ arc' = [arc EXCEPT !.strong = @ + 1]
    /\ UNCHANGED <<stack, held, children, count, balance, retry, n_permits, capacity, request, result, invoked, limiter, iteration, abandoned>>

\* The suspended Leak::acquire is woken by the inner semaphore.
LeakPoll(t) ==
    /\ stack = "leak"
    /\ pc[t] = "acquire"
    /\ LET r == ConcurrencyLimitAcquire(semaphore, t)
       IN  /\ r.ready
           /\ semaphore' = r.sems
           /\ permit' = [permit EXCEPT ![t] = <<"Leak">> \o r.permit]
    /\ pc' = [pc EXCEPT ![t] = "permit"]
    /\ UNCHANGED <<stack, held, children, count, arc, balance, retry, n_permits, capacity, request, result, invoked, limiter, iteration, abandoned>>

\* An unused LeakPermit is dropped: its fields are dropped in declaration
\* order, first _svc ...
LeakDropSvc(t) ==
    /\ stack = "leak"
    /\ pc[t] = "permit"
    /\ arc' = [arc EXCEPT !.strong = @ - 1]
    /\ pc' = [pc EXCEPT ![t] = "dropping"]
    /\ UNCHANGED <<stack, held, children, count, balance, retry, admission, limiter, iteration, abandoned>>

\* ... then inner, whose drop releases the ticket of the service it
\* refers to.  On a destroyed service the release writes to freed memory:
\* it may or may not show in what is left of the semaphore.
LeakDropInner(t) ==
    /\ stack = "leak"
    /\ pc[t] = "dropping"
    /\ semaphore' \in IF arc.strong > 0
                      THEN {DropPermitValue(semaphore, permit[t])}
                      ELSE {DropPermitValue(semaphore, permit[t]), semaphore}
    /\ pc' = [pc EXCEPT ![t] = "idle"]
    /\ permit' = [permit EXCEPT ![t] = <<>>]
    /\ UNCHANGED <<stack, held, children, count, arc, balance, retry, n_permits, capacity, request, result, invoked, limiter, iteration, abandoned>>

\* Leak::call: permit.inner is moved into the inner call, _svc stays in
\* the call future to its end.
LeakCall(t, req) ==
    /\ stack = "leak"
    /\ pc[t] = "permit"
    /\ LET r == ConcurrencyLimitCall(semaphore, t)
       IN  /\ pc' = [pc EXCEPT ![t] = r.pc]
           /\ invoked' = [invoked EXCEPT ![t] = IF r.started THEN @ + 1 ELSE @]
    /\ request' = [request EXCEPT ![t] = req]
    /\ UNCHANGED <<stack, held, children, count, arc, balance, retry, n_permits, capacity, semaphore, permit, result, limiter, iteration, abandoned>>

\* The inner call completes and drops its ticket; the call future returns
\* the response and drops _svc.
LeakFinish(t) ==
    /\ stack = "leak"
    /\ pc[t] = "calling"
    /\ semaphore' = [semaphore EXCEPT !.limit = SemDropPermit(@)]
    /\ arc' = [arc EXCEPT !.strong = @ - 1]
    /\ pc' = [pc EXCEPT ![t] = "done"]
    /\ result' = [result EXCEPT ![t] = <<Closure(request[t])>>]
    /\ UNCHANGED <<stack, held, children, count, balance, retry, n_permits, capacity, permit, request, invoked, limiter, iteration, abandoned>>

\* The owner drops the Leak (its entry is removed or overwritten); a
\* pending acquire borrows the Leak, so none is pending.
LeakRemove ==
    /\ stack = "leak"
    /\ arc.entry
    /\ \A t \in Task : pc[t] # "acquire"
    /\ arc' = [arc EXCEPT !.strong = @ - 1, !.entry = FALSE]
    /\ UNCHANGED <<stack, held, children, count, balance, retry, admission, pc, limiter, iteration, abandoned>>

\* ---------------------------------------------------- PendingRequests
\* PendingRequests::acquire is the inner acquire plus a reference to count
\* (Acquire, PollAcquire, DropPermit).
\* PendingRequests::call, polled for the first time: fetch_add, then the
\* inner call starts.
PendingCall(t, req) ==
    /\ stack = "load"
    /\ pc[t] = "permit"
    /\ count < MaxMetric
    /\ count' = count + 1
    /\ LET r == ConcurrencyLimitCall(semaphore, t)
       IN  /\ pc' = [pc EXCEPT ![t] = r.pc]
           /\ invoked' = [invoked EXCEPT ![t] = IF r.started THEN @ + 1 ELSE @]
    /\ request' = [request EXCEPT ![t] = req]
    /\ UNCHANGED <<stack, held, children, arc, balance, retry, n_permits, capacity, semaphore, permit, result, limiter, iteration, abandoned>>

\* The inner call completes (its ticket is dropped), then fetch_sub, and the
\* response is returned.
PendingFinish(t) ==
    /\ stack = "load"
    /\ pc[t] = "calling"
    /\ semaphore' = [semaphore EXCEPT !.limit = SemDropPermit(@)]
    /\ count' = count - 1
    /\ pc' = [pc EXCEPT ![t] = "done"]
    /\ result' = [result EXCEPT ![t] = <<Closure(request[t])>>]
    /\ UNCHANGED <<stack, held, children, arc, balance, retry, n_permits, capacity, permit, request, invoked, limiter, iteration, abandoned>>

\* The caller drops the call future while the inner call is pending: the
\* inner call future is dropped with its ticket; the rest of the body of
\* call, the fetch_sub, is never run.
PendingCancel(t) ==
    /\ stack = "load"
    /\ pc[t] = "calling"
    /\ semaphore' = [semaphore EXCEPT !.limit = SemDropPermit(@)]
    /\ pc' = [pc EXCEPT ![t] = "idle"]
    /\ permit' = [permit EXCEPT ![t] = <<>>]
    /\ request' = [request EXCEPT ![t] = 0]
    /\ invoked' = [invoked EXCEPT ![t] = 0]
    /\ UNCHANGED <<stack, held, children, arc, count, balance, retry, n_permits, capacity, result, limiter, iteration, abandoned>>

\* ------------------------------------------------------- Depressurize
\* A variant of DepressurizeAcquire that takes the inner permit in acquire.
DepressurizeAcquireEager(t) ==
    /\ stack = "depressurize"
    /\ pc[t] = "idle"
    /\ LET r == ConcurrencyLimitAcquire(semaphore, t)
       IN  /\ r.ready
           /\ semaphore' = r.sems
    /\ pc' = [pc EXCEPT ![t] = "permit"]
    /\ permit' = [permit EXCEPT ![t] = <<"Depressurize">>]
    /\ UNCHANGED <<stack, held, children, arc, count, balance, retry, n_permits, capacity, request, result, invoked, limiter, iteration, abandoned>>

\* Depressurize::acquire: returns the closure, which borrows the inner
\* service and has not run yet.
DepressurizeAcquire(t) ==
    /\ stack = "depressurize"
    /\ pc[t] = "idle"
    /\ pc' = [pc EXCEPT ![t] = "permit"]
    /\ permit' = [permit EXCEPT ![t] = <<"Depressurize">>]
    /\ UNCHANGED <<stack, held, children, arc, count, balance, retry, n_permits, capacity, semaphore, request, result, invoked, limiter, iteration, abandoned>>

\* The closure is called and polled for the first time:
\* self.inner.acquire().await, then the inner call with the request.
DepressurizeCall(t, req) ==
    /\ stack = "depressurize"
    /\ pc[t] = "permit"
    /\ LET r == ConcurrencyLimitAcquire(semaphore, t)
       IN  /\ semaphore' = r.sems
           /\ pc' = [pc EXCEPT ![t] = IF r.ready THEN "calling" ELSE "call_acquire"]
           /\ invoked' = [invoked EXCEPT ![t] = IF r.ready THEN @ + 1 ELSE @]
    /\ request' = [request EXCEPT ![t] = req]
    /\ UNCHANGED <<stack, held, children, arc, count, balance, retry, n_permits, capacity, permit, result, limiter, iteration, abandoned>>

\* The closure's future is woken by the inner semaphore: the inner permit
\* is obtained and the inner call starts.
DepressurizePoll(t) ==
    /\ stack = "depressurize"
    /\ pc[t] = "call_acquire"
    /\ LET r == ConcurrencyLimitAcquire(semaphore, t)
       IN  /\ r.ready
           /\ semaphore' = r.sems
    /\ pc' = [pc EXCEPT ![t] = "calling"]
    /\ invoked' = [invoked EXCEPT ![t] = @ + 1]
    /\ UNCHANGED <<stack, held, children, arc, count, balance, retry, n_permits, capacity, permit, request, result, limiter, iteration, abandoned>>

\* ------------------------------------- ConcurrencyLimit over a limit
\* A variant of NestedAcquire that awaits the ticket first and the inner
\* acquire second.
NestedAcquireTicketFirst(t) ==
    /\ stack = "nested"
    /\ \/ pc[t] = "idle"
       \/ pc[t] = "acquire"
            /\ (t \in children[1].assigned \/ t \in semaphore.limit.assigned)
    /\ LET outer == IF permit[t] = <<"Ticket">>
                    THEN [ready |-> TRUE, sems |-> semaphore]
                    ELSE ConcurrencyLimitAcquire(semaphore, t)
           inner == IF outer.ready
                    THEN SemPoll(children[1], t)
                    ELSE [ready |-> FALSE, sem |-> children[1]]
       IN  /\ children' = [children EXCEPT ![1] = inner.sem]
           /\ semaphore' = outer.sems
           /\ held' = [held EXCEPT ![t] = IF inner.ready THEN {1} ELSE {}]
           /\ pc' = [pc EXCEPT ![t] = IF inner.ready THEN "permit" ELSE "acquire"]
           /\ permit' = [permit EXCEPT ![t] =
                 IF inner.ready THEN outer.permit
                 ELSE IF outer.ready THEN <<"Ticket">> ELSE <<>>]
    /\ UNCHANGED <<stack, count, arc, balance, retry, n_permits, capacity, request, result, invoked, limiter, iteration, abandoned>>

\* ConcurrencyLimit::acquire over an inner service whose acquire can
\* suspend (here the first child), polled by t for the first time or woken:
\* the inner acquire is awaited, then the semaphore.
NestedAcquire(t) ==
    /\ stack = "nested"
    /\ \/ pc[t] = "idle"
       \/ pc[t] = "acquire"
            /\ (t \in children[1].assigned \/ t \in semaphore.limit.assigned)
    /\ LET inner == IF 1 \in held[t]
                    THEN [ready |-> TRUE, sem |-> children[1]]
                    ELSE SemPoll(children[1], t)
           outer == IF inner.ready
                    THEN ConcurrencyLimitAcquire(semaphore, t)
                    ELSE [ready |-> FALSE, permit |-> <<>>, sems |-> semaphore]
       IN  /\ children' = [children EXCEPT ![1] = inner.sem]
           /\ semaphore' = outer.sems
           /\ held' = [held EXCEPT ![t] = IF inner.ready THEN {1} ELSE {}]
           /\ pc' = [pc EXCEPT ![t] = IF outer.ready THEN "permit" ELSE "acquire"]
           /\ permit' = [permit EXCEPT ![t] = IF outer.ready THEN outer.permit ELSE <<>>]
    /\ UNCHANGED <<stack, count, arc, balance, retry, n_permits, capacity, request, result, invoked, limiter, iteration, abandoned>>

\* ConcurrencyLimit::call: the inner call starts with the inner permit; the
\* ticket stays with the call future.
NestedCall(t, req) ==
    /\ stack = "nested"
    /\ pc[t] = "permit"
    /\ LET r == ConcurrencyLimitCall(semaphore, t)
       IN  /\ pc' = [pc EXCEPT ![t] = r.pc]
           /\ invoked' = [invoked EXCEPT ![t] = IF r.started THEN @ + 1 ELSE @]
    /\ request' = [request EXCEPT ![t] = req]
    /\ UNCHANGED <<stack, held, children, count, arc, balance, retry, n_permits, capacity, semaphore, permit, result, limiter, iteration, abandoned>>

\* ------------------------------------------------------------- Select
\* Select::acquire, polled by t for the first time or woken by a child:
\* select_all polls the pending child acquires in order and stops at the
\* first that is ready; the others are dropped with the select_all.
SelectAcquire(t) ==
    /\ stack = "select"
    /\ \/ pc[t] = "idle"
       \/ pc[t] = "acquire" /\ \E c \in Child : t \in children[c].assigned
    /\ LET ready == {c \in Child : SemPoll(children[c], t).ready}
       IN  IF ready = {}
           THEN /\ children' = [c \in Child |-> SemPoll(children[c], t).sem]
                /\ pc' = [pc EXCEPT ![t] = "acquire"]
                /\ held' = held
           ELSE LET first == CHOOSE c \in ready : \A d \in ready : c <= d
                IN  /\ children' = [c \in Child |->
                          IF c = first THEN SemPoll(children[c], t).sem
                          ELSE SemDropAcquire(children[c], t)]
                    /\ pc' = [pc EXCEPT ![t] = "permit"]
                    /\ held' = [held EXCEPT ![t] = {first}]
    /\ UNCHANGED <<stack, count, arc, balance, retry, admission, limiter, iteration, abandoned>>

\* Select::call: the call of the child the permit came from.
SelectCall(t, req) ==
    /\ stack = "select"
    /\ pc[t] = "permit"
    /\ pc' = [pc EXCEPT ![t] = "calling"]
    /\ request' = [request EXCEPT ![t] = req]
    /\ invoked' = [invoked EXCEPT ![t] = @ + 1]
    /\ UNCHANGED <<stack, held, children, count, arc, balance, retry, n_permits, capacity, semaphore, permit, result, limiter, iteration, abandoned>>

\* -------------------------------------------------------------- Steer
\* A picker: a valid index computed from the request.
Pick(req) == ((req - 1) % NumChildren) + 1

\* Steer::acquire, polled by t for the first time or woken by a child:
\* join_all polls every child acquire that is still pending and keeps the
\* permits of those that are done; it completes when all are done.
SteerAcquire(t) ==
    /\ stack = "steer"
    /\ \/ pc[t] = "idle"
       \/ pc[t] = "acquire" /\ \E c \in Child \ held[t] : t \in children[c].assigned
    /\ LET done == held[t] \cup {c \in Child \ held[t] : SemPoll(children[c], t).ready}
       IN  /\ children' = [c \in Child |->
                 IF c \in held[t] THEN children[c] ELSE SemPoll(children[c], t).sem]
           /\ held' = [held EXCEPT ![t] = done]
           /\ pc' = [pc EXCEPT ![t] = IF done = Child THEN "permit" ELSE "acquire"]
    /\ UNCHANGED <<stack, count, arc, balance, retry, admission, limiter, iteration, abandoned>>

\* A variant of SteerCall that keeps the permits of the other children to
\* the end of the call.
SteerCallHolding(t, req) ==
    /\ stack = "steer"
    /\ pc[t] = "permit"
    /\ pc' = [pc EXCEPT ![t] = "calling"]
    /\ request' = [request EXCEPT ![t] = req]
    /\ invoked' = [invoked EXCEPT ![t] = @ + 1]
    /\ UNCHANGED <<stack, held, children, count, arc, balance, retry, n_permits, capacity, semaphore, permit, result, limiter, iteration, abandoned>>

\* Steer::call: the picker picks an index, the permit at that index is
\* taken out of the vector, the rest of the vector is dropped, and the call
\* of the picked child starts.
SteerCall(t, req) ==
    /\ stack = "steer"
    /\ pc[t] = "permit"
    /\ LET index == Pick(req)
       IN  /\ children' = [c \in Child |->
                 IF c \in held[t] \ {index} THEN SemDropPermit(children[c])
                 ELSE children[c]]
           /\ held' = [held EXCEPT ![t] = {index}]
    /\ pc' = [pc EXCEPT ![t] = "calling"]
    /\ request' = [request EXCEPT ![t] = req]
    /\ invoked' = [invoked EXCEPT ![t] = @ + 1]
    /\ UNCHANGED <<stack, count, arc, balance, retry, n_permits, capacity, semaphore, permit, result, limiter, iteration, abandoned>>

\* ------------------------------------- balance::p2c over its backends
\* A variant of P2cChild in which the permit of the candidate that was not
\* selected stays out.
P2cChildKeeping(s, t, role) ==
    IF role \in {"selected", "other"} THEN SemPoll(s, t).sem
    ELSE SemDropAcquire(s, t)

\* What the return of BalanceInner::acquire does to the semaphore of one
\* backend: the selected candidate keeps the ticket it took, the other
\* candidate took one and its permit is dropped, and the acquire futures
\* left in the FuturesUnordered are dropped with it.
P2cChild(s, t, role) ==
    IF role = "selected" THEN SemPoll(s, t).sem
    ELSE IF role = "other" THEN SemDropPermit(SemPoll(s, t).sem)
    ELSE SemDropAcquire(s, t)

\* BalanceInner::acquire over the backends Child (ConcurrencyLimit services
\* behind Leak), polled by t for the first time or woken by a backend.  At
\* the first poll the acquires are polled in registry order; later the
\* woken ones are polled in the order they woke, `first` before `second`
\* (first = second: one only was woken).  load is what Load::load answers
\* at the selection.
P2cAcquire(t, first, second, load) ==
    /\ stack = "p2c"
    /\ LET ready == {c \in Child : SemPoll(children[c], t).ready}
           lowest(S) == CHOOSE c \in S : \A d \in S : c <= d
       IN  /\ \/ /\ pc[t] = "idle"
                 /\ ready # {} => first = lowest(ready)
                 /\ ready \ {first} # {} => second = lowest(ready \ {first})
                 /\ ready \ {first} = {} => second = first
              \/ /\ pc[t] = "acquire"
                 /\ first \in ready
                 /\ second \in ready
                 /\ ready \ {first} # {} => second # first
           /\ IF ready = {}
              THEN /\ first = 1 /\ second = 1
                   /\ children' = [c \in Child |-> SemPoll(children[c], t).sem]
                   /\ pc' = [pc EXCEPT ![t] = "acquire"]
                   /\ held' = held
              ELSE LET selected == IF first = second THEN first
                                   ELSE Lowest(<<first, load[first]>>,
                                               <<second, load[second]>>)[1]
                   IN  /\ children' = [c \in Child |->
                              P2cChild(children[c], t,
                                       IF c = selected THEN "selected"
                                       ELSE IF c \in {first, second} THEN "other"
                                       ELSE "pending")]
                       /\ pc' = [pc EXCEPT ![t] = "permit"]
                       /\ held' = [held EXCEPT ![t] = {selected}]
    /\ UNCHANGED <<stack, count, arc, balance, retry, admission, limiter, iteration, abandoned>>

\* BalanceInner::call: the call of the backend the permit came from.
P2cCall(t, req) ==
    /\ stack = "p2c"
    /\ pc[t] = "permit"
    /\ pc' = [pc EXCEPT ![t] = "calling"]
    /\ request' = [request EXCEPT ![t] = req]
    /\ invoked' = [invoked EXCEPT ![t] = @ + 1]
    /\ UNCHANGED <<stack, held, children, count, arc, balance, retry, n_permits, capacity, semaphore, permit, result, limiter, iteration, abandoned>>

\* ------------------------------------------- the children's permits
\* The call of a child completes: its ticket is dropped and the response
\* returned; the ConcurrencyLimit above it, if any, drops its own ticket.
ChildFinish(t) ==
    /\ stack \in {"select", "steer", "nested", "p2c"}
    /\ pc[t] = "calling"
    /\ children' = [c \in Child |->
          IF c \in held[t] THEN SemDropPermit(children[c]) ELSE children[c]]
    /\ semaphore' = IF stack = "nested"
                    THEN [semaphore EXCEPT !.limit = SemDropPermit(@)]
                    ELSE semaphore
    /\ held' = [held EXCEPT ![t] = {}]
    /\ pc' = [pc EXCEPT ![t] = "done"]
    /\ result' = [result EXCEPT ![t] = <<Closure(request[t])>>]
    /\ UNCHANGED <<stack, count, arc, balance, retry, n_permits, capacity, permit, request, invoked, limiter, iteration, abandoned>>

\* The caller drops the permit without calling.
ChildDrop(t) ==
    /\ stack \in {"select", "steer", "nested", "p2c"}
    /\ pc[t] = "permit"
    /\ children' = [c \in Child |->
          IF c \in held[t] THEN SemDropPermit(children[c]) ELSE children[c]]
    /\ semaphore' = IF stack = "nested"
                    THEN [semaphore EXCEPT !.limit = SemDropPermit(@)]
                    ELSE semaphore
    /\ held' = [held EXCEPT ![t] = {}]
    /\ pc' = [pc EXCEPT ![t] = "idle"]
    /\ permit' = [permit EXCEPT ![t] = <<>>]
    /\ UNCHANGED <<stack, count, arc, balance, retry, n_permits, capacity, request, result, invoked, limiter, iteration, abandoned>>

\* ------------------------------------------------------ specification
InitTasks ==
    /\ pc = [t \in Task |-> "idle"]
    /\ permit = [t \in Task |-> <<>>]
    /\ request = [t \in Task |-> 0]
    /\ result = [t \in Task |-> <<>>]
    /\ invoked = [t \in Task |-> 0]
    /\ iteration = 0
    /\ abandoned = FALSE

InitStack(stacks) ==
    /\ stack \in stacks
    /\ n_permits \in IF stack \in {"rate", "balance", "retry_count", "retry_finite"} THEN {0} ELSE 1..MaxLimit
    /\ capacity \in IF stack \in {"buffer", "shed_buffer"} THEN 1..MaxCapacity ELSE {0}
    /\ semaphore = [limit |-> SemNew(n_permits), buffer |-> SemNew(capacity)]
    /\ clock = 0
    /\ rate = RateLimitNew(clock)
    /\ balance = BalanceNew
    /\ retry = [t \in Task |-> IF IsRetry THEN RetryNew ELSE <<>>]
    /\ arc = LeakNew
    /\ count = 0
    /\ children = [c \in Child |-> SemNew(IF stack = "nested" THEN MaxLimit ELSE n_permits)]
    /\ held = [t \in Task |-> {}]
    /\ InitTasks

\* The combinators over ConcurrencyLimit, with callers free to drop permits
\* and to abandon pending futures.
Init == InitStack({"limit", "shed", "buffer", "shed_buffer"})

Next ==
    \E t \in Task :
        \/ Acquire(t)
        \/ PollAcquire(t)
        \/ CancelAcquire(t) /\ UNCHANGED abandoned
        \/ DropPermit(t)
        \/ \E req \in Request : Call(t, req)
        \/ PollCall(t)
        \/ Finish(t)
        \/ CancelCall(t)
        \/ Reset(t)

Spec == Init /\ [][Next]_vars

\* RateLimit over service_fn, with concurrent callers free to hold or drop
\* permits and to abandon pending acquires.
InitRate == InitStack({"rate"})

NextRate ==
    \/ Tick
    \/ \E t \in Task :
        \/ \E first \in Order : RateAcquire(t, first)
        \/ \E first \in Order : RatePoll(t, first)
        \/ RateCancel(t) /\ UNCHANGED abandoned
        \/ RateDrop(t)
        \/ RateCall(t) /\ UNCHANGED iteration

SpecRate == InitRate /\ [][NextRate]_vars

\* RateLimit over service_fn with one caller issuing one-shot calls in
\* sequence (for _ in 0..7 { svc.oneshot(1).await }).
MaxIteration == 3 * Permits + 1

NextRateSeq ==
    \/ Tick
    \/ \E first \in Order : RateAcquire(1, first)
    \/ \E first \in Order : RatePoll(1, first)
    \/ RateCall(1) /\ iteration < MaxIteration /\ iteration' = iteration + 1

SpecRateSeq == InitRate /\ [][NextRateSeq]_vars

\* The three suspending combinators, each with callers abandoning acquires.
InitCancel == InitStack({"limit", "buffer", "rate"})

NextCancel ==
    \/ stack = "rate" /\ Tick
    \/ \E t \in Task :
        \/ stack # "rate" /\ Acquire(t)
        \/ stack # "rate" /\ PollAcquire(t)
        \/ stack # "rate" /\ CancelAcquire(t) /\ abandoned' = TRUE
        \/ stack # "rate" /\ DropPermit(t)
        \/ stack # "rate" /\ Call(t, 1)
        \/ stack # "rate" /\ PollCall(t)
        \/ stack # "rate" /\ Finish(t)
        \/ stack # "rate" /\ Reset(t)
        \/ stack = "rate" /\ \E first \in Order : RateAcquire(t, first)
        \/ stack = "rate" /\ \E first \in Order : RatePoll(t, first)
        \/ stack = "rate" /\ RateCancel(t) /\ abandoned' = TRUE
        \/ stack = "rate" /\ RateDrop(t)
        \/ stack = "rate" /\ RateCall(t) /\ UNCHANGED iteration

SpecCancel == InitCancel /\ [][NextCancel]_vars

\* One-shot requests only (ServiceExt::oneshot through LoadShed over Buffer
\* over ConcurrencyLimit): every permit is called, nothing is abandoned.  A
\* started call is polled until it completes.
InitOneshot == InitStack({"shed_buffer"})

\* The request each caller passes to its oneshot.
OneshotRequest(t) == ((t - 1) % MaxRequest) + 1

NextOneshot ==
    \E t \in Task :
        \/ Acquire(t)
        \/ Call(t, OneshotRequest(t))
        \/ PollCall(t)
        \/ Finish(t)

SpecOneshot ==
    /\ InitOneshot
    /\ [][NextOneshot]_vars
    /\ \A t \in Task :
        /\ WF_vars(Call(t, OneshotRequest(t)))
        /\ WF_vars(PollCall(t))
        /\ WF_vars(Finish(t))

\* The balancer with its worker, its change stream and its callers; a
\* backend may resolve acquire at once or suspend it.
InitBalance == InitStack({"balance"})

NextBalance ==
    \/ \E change \in Change \cup {<<"None">>} : WorkerNext(change)
    \/ WorkerWrite
    \/ \E next \in Change \cup {<<>>, <<"None">>} : WorkerDrain(next)
    \/ \E t \in Caller :
        \/ \E ready \in SUBSET Key : BalanceAcquire(t, ready)
        \/ \E ready \in SUBSET Key : BalanceRead(t, ready)
        \/ \E first, second \in 1..MaxKey : BalanceSelect(t, first, second)
        \/ BalanceCall(t)

SpecBalance == InitBalance /\ [][NextBalance]_vars

\* The balancer fed by a discovery stream that only inserts, each backend
\* under its own index (balance::Change::Insert(index, svc)).  The executor
\* runs every woken future, and the stream does not yield for ever without
\* being pending or ending.
Inserts == {<<"Insert", k, k>> : k \in Key \cap Metric}

NextBalanceLive ==
    \/ \E change \in Inserts \cup {<<"None">>} : WorkerNext(change)
    \/ WorkerWrite
    \/ \E next \in Inserts \cup {<<>>, <<"None">>} : WorkerDrain(next)
    \/ \E t \in Caller :
        \/ \E ready \in SUBSET Key : BalanceAcquire(t, ready)
        \/ \E ready \in SUBSET Key : BalanceRead(t, ready)
        \/ \E first, second \in 1..MaxKey : BalanceSelect(t, first, second)
        \/ BalanceCall(t)

SpecBalanceLive ==
    /\ InitBalance
    /\ [][NextBalanceLive]_vars
    /\ WF_vars(WorkerWrite)
    /\ WF_vars(WorkerDrain(<<>>) \/ WorkerDrain(<<"None">>))
    /\ \A t \in Caller :
        /\ WF_vars(\E ready \in SUBSET Key : BalanceRead(t, ready))
        /\ WF_vars(\E first, second \in 1..MaxKey : BalanceSelect(t, first, second))

\* The balancer with its two kinds of readers, selectors and load_profile
\* callers, fed by a discovery stream that inserts each backend under its
\* own index and removes backends.
Discovery == Inserts \cup {<<"Remove", k>> : k \in Key}

NextReaders ==
    \/ \E change \in Discovery \cup {<<"None">>} : WorkerNext(change)
    \/ WorkerWrite
    \/ \E next \in Discovery \cup {<<>>, <<"None">>} : WorkerDrain(next)
    \/ \E t \in Caller :
        \/ \E ready \in SUBSET Key : BalanceAcquire(t, ready)
        \/ \E ready \in SUBSET Key : BalanceRead(t, ready)
        \/ \E first, second \in 1..MaxKey : BalanceSelect(t, first, second)
        \/ BalanceCall(t)
        \/ LoadProfile(t)
        \/ Reset(t)

SpecReaders == InitBalance /\ [][NextReaders]_vars

\* Retry over the inner service, with either policy.
InitRetry == InitStack({"retry_count", "retry_finite"})

NextRetry ==
    \E t \in Caller :
        \/ RetryAcquire(t)
        \/ RetryAcquirePoll(t)
        \/ \E req \in Request : RetryCall(t, req)
        \/ \E quality \in Quality : RetryPoll(t, quality)
        \/ RetryDone(t)

SpecRetry == InitRetry /\ [][NextRetry]_vars

\* ConcurrencyLimit over service_fn with callers that wait for their
\* ticket and give back what they hold: the executor polls every woken
\* acquire, every inner call completes, and a caller with a permit calls or
\* drops it.
NextLimitLive ==
    \E t \in Task :
        \/ Acquire(t)
        \/ PollAcquire(t)
        \/ DropPermit(t)
        \/ \E req \in Request : Call(t, req)
        \/ Finish(t)
        \/ Reset(t)

SpecLimitLive ==
    /\ InitStack({"limit"})
    /\ [][NextLimitLive]_vars
    /\ \A t \in Task :
        /\ WF_vars(PollAcquire(t))
        /\ WF_vars(DropPermit(t) \/ \E req \in Request : Call(t, req))
        /\ WF_vars(Finish(t))

\* The other combinators, each over ConcurrencyLimit over service_fn.
\* "leak": Leak, held in an entry that its owner may remove while permits
\* are out.  "load": PendingRequests.  "depressurize": Depressurize.
\* "select" and "steer": Select and Steer over ConcurrencyLimit children.
\* "nested": ConcurrencyLimit over a ConcurrencyLimit of MaxLimit tickets.
\* "p2c": the selection of the balancer over ConcurrencyLimit backends.
NextCombinators ==
    \/ \E t \in Task :
        \/ NestedAcquire(t)
        \/ \E req \in Request : NestedCall(t, req)
        \/ SteerAcquire(t)
        \/ \E req \in Request : SteerCall(t, req)
        \/ SelectAcquire(t)
        \/ \E req \in Request : SelectCall(t, req)
        \/ \E first, second \in Child : \E load \in [Child -> Metric] :
                P2cAcquire(t, first, second, load)
        \/ \E req \in Request : P2cCall(t, req)
        \/ ChildFinish(t)
        \/ ChildDrop(t)
        \/ stack = "load" /\ Acquire(t)
        \/ stack = "load" /\ PollAcquire(t)
        \/ stack \in {"load", "depressurize"} /\ DropPermit(t)
        \/ DepressurizeAcquire(t)
        \/ \E req \in Request : DepressurizeCall(t, req)
        \/ DepressurizePoll(t)
        \/ stack = "depressurize" /\ Finish(t)
        \/ \E req \in Request : PendingCall(t, req)
        \/ PendingFinish(t)
        \/ PendingCancel(t)
        \/ LeakAcquire(t)
        \/ LeakPoll(t)
        \/ LeakDropSvc(t)
        \/ LeakDropInner(t)
        \/ \E req \in Request : LeakCall(t, req)
        \/ LeakFinish(t)
        \/ Reset(t)
    \/ LeakRemove

SpecCombinators ==
    InitStack({"leak", "load", "depressurize", "select", "steer", "nested", "p2c"}) /\ [][NextCombinators]_vars

\* The combinators that hand the inner response to the caller as it is:
\* ConcurrencyLimit, Buffer, RateLimit and Leak (whose call is the call of
\* the balancer), each over service_fn or over ConcurrencyLimit.
NextPassThrough ==
    \/ stack = "rate" /\ Tick
    \/ LeakRemove
    \/ \E t \in Task :
        \/ stack \in {"limit", "buffer"} /\ Acquire(t)
        \/ stack \in {"limit", "buffer"} /\ PollAcquire(t)
        \/ stack \in {"limit", "buffer"} /\ \E req \in Request : Call(t, req)
        \/ stack \in {"limit", "buffer"} /\ PollCall(t)
        \/ stack \in {"limit", "buffer"} /\ Finish(t)
        \/ stack \in {"limit", "buffer"} /\ CancelCall(t)
        \/ stack = "rate" /\ t \in Caller /\ \E first \in Order : RateAcquire(t, first)
        \/ stack = "rate" /\ \E first \in Order : RatePoll(t, first)
        \/ stack = "rate" /\ \E req \in Request : RateCallWith(t, req)
        \/ LeakAcquire(t)
        \/ LeakPoll(t)
        \/ \E req \in Request : LeakCall(t, req)
        \/ LeakFinish(t)
        \/ Reset(t)

SpecPassThrough ==
    InitStack({"limit", "buffer", "rate", "leak"}) /\ [][NextPassThrough]_vars

\* RateLimit over service_fn with time that never stops and NumWaiters
\* callers that do not abandon an acquire: the executor polls every woken
\* acquire.
NextRateLive ==
    \/ Tick
    \/ Advance
    \/ \E t \in 1..NumWaiters :
        \/ \E first \in Order : RateAcquire(t, first)
        \/ \E first \in Order : RatePoll(t, first)
        \/ RateDrop(t)
        \/ RateCall(t) /\ UNCHANGED iteration

SpecRateLive ==
    /\ InitStack({"rate"})
    /\ [][NextRateLive]_vars
    /\ WF_vars(Tick \/ Advance)
    /\ \A t \in 1..NumWaiters : WF_vars(\E first \in Order : RatePoll(t, first))

\* ------------------------------------------------------------- claims
Calling == {t \in Task : pc[t] = "calling"}

\* The tasks whose permit or call future owns a ConcurrencyLimit ticket.
TicketHolders ==
    {t \in Task : \/ pc[t] = "permit" /\ OwnsTicket(permit[t])
                  \/ pc[t] = "calling"}

\* The tasks whose permit or call future owns a Buffer slot.
SlotHolders ==
    {t \in Task : \/ pc[t] = "permit" /\ OwnsSlot(permit[t])
                  \/ pc[t] = "call_acquire"}

Min(a, b) == IF a < b THEN a ELSE b

\* C1: at most n_permits inner calls run at a time, because every running
\* call and every unused permit owns one of the n_permits tickets: free,
\* assigned and owned tickets always add up to n_permits.
C1_ConcurrencyBound ==
    /\ Cardinality(Calling) <= n_permits
    /\ semaphore.limit.permits + Cardinality(semaphore.limit.assigned)
         + Cardinality(TicketHolders) = n_permits

\* C1 witness: ConcurrencyLimit(2) with both tickets in running calls while
\* a further caller is suspended in acquire.
C1_Witness ==
    /\ stack = "limit" /\ n_permits = 2
    /\ Cardinality(Calling) = 2
    /\ \E t \in Task : pc[t] = "acquire"

\* C2: when a ticket owner lets go of its ticket (a permit dropped unused
\* in particular) while acquires are queued, the longest waiting acquire is
\* assigned the ticket and can complete on its next poll; and once no task
\* owns a ticket or waits for one, all n_permits tickets are free again.
C2_DropReturnsTicket ==
    /\ [](\A t \in Task :
            (stack = "limit" /\ t \in semaphore.limit.assigned) => ENABLED PollAcquire(t))
    /\ []((TicketHolders = {} /\ semaphore.limit.waiters = <<>>
             /\ semaphore.limit.assigned = {})
            => semaphore.limit.permits = n_permits)
    /\ [][\A t \in Task :
            (/\ pc[t] = "permit" /\ OwnsTicket(permit[t]) /\ pc'[t] = "idle"
             /\ semaphore.limit.waiters # <<>>)
            => /\ Head(semaphore.limit.waiters) \in semaphore'.limit.assigned
               /\ semaphore'.limit.waiters = Tail(semaphore.limit.waiters)]_vars

\* C2 witness: ConcurrencyLimit(N), nobody has called, N - 1 permits are
\* still held unused and the caller that had been queued was assigned the
\* ticket of the dropped one.
C2_Witness ==
    /\ stack = "limit"
    /\ \A t \in Task : pc[t] \in {"idle", "permit", "acquire"} /\ request[t] = 0
    /\ Cardinality({t \in Task : pc[t] = "permit"}) = n_permits - 1
    /\ \E t \in Task : pc[t] = "acquire" /\ t \in semaphore.limit.assigned

\* C3: an acquire of ConcurrencyLimit, Buffer or RateLimit abandoned while
\* suspended consumes nothing: the task is left in no wait queue and holds
\* no lock, every other waiter keeps its place, no ticket or slot changes
\* owner, and in every semaphore the permits that are free or assigned to
\* waiters are as many as before (a ticket already assigned to the abandoned
\* acquire goes to the next waiter or back to the free ones); only the
\* last_update lock, if the task held it, gains its one permit back.
Free(s) == s.permits + Cardinality(s.assigned)
Queued(s, t) == InQueue(t, s.waiters) \/ t \in s.assigned

Released(s, s2, t) ==
    /\ ~Queued(s2, t)
    /\ \A u \in Task \ {t} : Queued(s2, u) <=> Queued(s, u)
    /\ Without(s2.waiters, t) = s2.waiters
    /\ \E k \in 0..Len(s.waiters) : s2.waiters = SubSeq(Without(s.waiters, t), k + 1, Len(Without(s.waiters, t)))

C3_AbandonedAcquire ==
    /\ [](\A t \in Task :
            pc[t] = "idle" =>
                /\ ~Queued(semaphore.limit, t) /\ ~Queued(semaphore.buffer, t)
                /\ ~Queued(rate.semaphore, t) /\ ~Queued(rate.mutex, t)
                /\ rate.guard # t)
    /\ [][\A t \in Task :
            (pc[t] = "acquire" /\ pc'[t] = "idle")
            => /\ Released(semaphore.limit, semaphore'.limit, t)
               /\ Released(semaphore.buffer, semaphore'.buffer, t)
               /\ Released(rate.semaphore, rate'.semaphore, t)
               /\ Released(rate.mutex, rate'.mutex, t)
               /\ Free(semaphore'.limit) = Free(semaphore.limit)
               /\ Free(semaphore'.buffer) = Free(semaphore.buffer)
               /\ Free(rate'.semaphore) = Free(rate.semaphore)
               /\ Free(rate'.mutex) = Free(rate.mutex) + (IF rate.guard = t THEN 1 ELSE 0)
               /\ rate'.guard # t
               /\ TicketHolders' = TicketHolders
               /\ SlotHolders' = SlotHolders]_vars

\* C3 witness: a RateLimit whose callers are all idle again after an acquire
\* was abandoned: a refill had handed out tickets, none was used for a call,
\* and all of them are free, as is the lock.
C3_Witness ==
    /\ stack = "rate" /\ abandoned
    /\ \A t \in Task : pc[t] = "idle"
    /\ rate.refills >= 1 /\ rate.calls = 0
    /\ rate.semaphore = SemNew(Permits)
    /\ rate.guard = 0 /\ rate.mutex = SemNew(1)

\* C4: LoadShed::acquire never suspends: it returns a permit in the step
\* that starts it, Some exactly when the inner acquire is ready on that
\* poll, and a None leaves the inner semaphores as they were (no ticket, no
\* slot, no queued waiter).
InnerReady ==
    \/ semaphore.limit.permits > 0
    \/ HasBuffer /\ semaphore.buffer.permits > 0

C4_LoadShedNeverSuspends ==
    /\ [](HasShed => /\ \A t \in Task : pc[t] # "acquire"
                     /\ semaphore.buffer.waiters = <<>>
                     /\ semaphore.buffer.assigned = {}
                     /\ \A t \in Task : InQueue(t, semaphore.limit.waiters)
                                            => pc[t] = "call_acquire")
    /\ [][\A t \in Task :
            (HasShed /\ pc[t] = "idle" /\ pc'[t] # "idle")
            => /\ pc'[t] = "permit"
               /\ permit'[t][1] = "Some" <=> InnerReady
               /\ permit'[t] = <<"None">> <=> ~InnerReady
               /\ permit'[t] = <<"None">> => semaphore' = semaphore]_vars

\* C4 witness: LoadShed handed out an absent permit while the inner service
\* was exhausted, and a present one before.
C4_Witness ==
    /\ HasShed
    /\ \E t, u \in Task :
        /\ pc[t] = "permit" /\ permit[t] = <<"None">>
        /\ pc[u] = "permit" /\ permit[u][1] = "Some"

\* C5: a LoadShed call with an absent permit answers Err of the request it
\* was given and the closure was never run; with a present permit the
\* closure is run exactly once and the answer is Ok of its response.
C5_LoadShedCall ==
    HasShed =>
        \A t \in Task :
            /\ invoked[t] <= 1
            /\ pc[t] = "calling" => invoked[t] = 1 /\ permit[t][1] = "Some"
            /\ pc[t] = "done" =>
                IF permit[t] = <<"None">>
                THEN result[t] = <<"Err", request[t]>> /\ invoked[t] = 0
                ELSE result[t] = <<"Ok", Closure(request[t])>> /\ invoked[t] = 1

\* C5 witness: LoadShed over ConcurrencyLimit(1), two requests: the first
\* answered Ok, the second, issued while the first was running, Err with
\* its own request.
C5_Witness ==
    /\ stack = "shed" /\ n_permits = 1
    /\ \E t, u \in Task :
        /\ pc[t] = "done" /\ result[t] = <<"Ok", Closure(request[t])>>
        /\ pc[u] = "done" /\ result[u] = <<"Err", request[u]>>
        /\ request[t] # request[u]

\* C6: at most capacity requests own a Buffer slot (free, assigned and owned
\* slots add up to capacity); an acquire that finds no free ticket and no
\* free slot suspends; and when a slot is let go while acquires are queued
\* the longest waiting one is assigned it and completes on its next poll.
C6_BufferSlots ==
    /\ [](/\ Cardinality(SlotHolders) <= capacity
          /\ semaphore.buffer.permits + Cardinality(semaphore.buffer.assigned)
               + Cardinality(SlotHolders) = capacity)
    /\ [](\A t \in Task :
            (stack = "buffer" /\ t \in semaphore.buffer.assigned)
                => pc[t] = "acquire" /\ ENABLED PollAcquire(t))
    /\ [][\A t \in Task :
            (/\ stack = "buffer" /\ pc[t] = "idle" /\ pc'[t] # "idle"
             /\ semaphore.limit.permits = 0 /\ semaphore.buffer.permits = 0)
            => /\ pc'[t] = "acquire"
               /\ semaphore'.buffer.waiters = Append(semaphore.buffer.waiters, t)
               /\ semaphore'.limit = semaphore.limit]_vars
    /\ [][\A t \in Task :
            (/\ stack = "buffer" /\ t \in SlotHolders /\ ~(t \in SlotHolders')
             /\ semaphore.buffer.waiters # <<>>)
            => Head(semaphore.buffer.waiters) \in semaphore'.buffer.assigned]_vars

\* C6 witness: Buffer(1) over ConcurrencyLimit(1): one call running, one
\* request that owned the slot has moved on, and the acquire that had
\* suspended on the full buffer was assigned the slot.
C6_Witness ==
    /\ stack = "buffer" /\ capacity = 1 /\ n_permits = 1
    /\ Cardinality(Calling) = 1
    /\ \E t \in Task : pc[t] = "acquire" /\ t \in semaphore.buffer.assigned

\* C7: through LoadShed over Buffer(capacity) over ConcurrencyLimit(n_permits),
\* as long as no inner call has finished, of k one-shot requests that have
\* attempted acquire exactly min(k, n_permits + capacity) are accepted and
\* the others shed; a shed request answers Err of its own request, and every
\* accepted request eventually answers Ok.
Attempted == {t \in Task : pc[t] # "idle"}
Accepted == {t \in Attempted : permit[t][1] = "Some"}
NoneFinished == \A t \in Task : pc[t] = "done" => permit[t] = <<"None">>

C7_Pipeline ==
    /\ [](NoneFinished =>
            Cardinality(Accepted) = Min(Cardinality(Attempted), n_permits + capacity))
    /\ [](\A t \in Task :
            pc[t] = "done" =>
                IF t \in Accepted
                THEN result[t] = <<"Ok", Closure(request[t])>>
                ELSE result[t] = <<"Err", request[t]>>)
    /\ \A t \in Task :
            (t \in Accepted) ~> (pc[t] = "done" /\ result[t][1] = "Ok")

\* C7 witness: n_permits + capacity + 1 requests, all issued before any
\* inner call finished: all but one answered Ok, one answered Err.
C7_Witness ==
    /\ Cardinality(Task) = n_permits + capacity + 1
    /\ \A t \in Task : pc[t] = "done"
    /\ Cardinality({t \in Task : result[t][1] = "Ok"}) = n_permits + capacity
    /\ \E t \in Task : result[t] = <<"Err", request[t]>>

\* The tasks holding a RateLimitPermit.
RateHolders == {t \in Task : stack = "rate" /\ pc[t] = "permit"}

C9_BurstPerRefill ==
    /\ rate.semaphore.waiters # <<>> => rate.semaphore.permits = 0
    /\ rate.refills >= 1 => clock >= Interval
    /\ Free(rate.semaphore) + Cardinality(RateHolders) + rate.calls = Permits

\* C10: at most Permits calls are made between two consecutive refills, and
\* at most Permits before the first one.
C10_CallsPerInterval == rate.calls <= Permits

\* The outcome of the selection of caller t between two registered
\* backends resolving in the order <<first, second>>.
Selected(t, first, second) == BalanceInnerAcquire(balance, t, <<first, second>>)

\* C11: whenever two registered backends of different loads both resolve
\* in an acquire, in either order, the acquire returns a permit, and it is
\* the permit of the one with the strictly lower load.
C11_LowerLoad ==
    \A t \in Caller : \A i, j \in 1..Len(balance.services) :
        LET first == balance.services[i]
            second == balance.services[j]
            r == Selected(t, first, second)
        IN  (i # j /\ first[2] # second[2]) =>
                /\ r.pc = "permit"
                /\ r.permit \in {first, second}
                /\ r.permit[2] = Min(first[2], second[2])

\* C11 witness: a caller holds the permit of the lower loaded of two
\* registered backends, the higher loaded one being the first in the
\* registry.
C11_Witness ==
    \E t \in Caller :
        /\ pc[t] = "permit"
        /\ Len(balance.services) = 2
        /\ balance.services[1][2] > balance.services[2][2]
        /\ permit[t] = balance.services[2]

\* C12 (as the code has it): whenever two registered backends of equal
\* load both resolve in an acquire, the permit returned is the one of the
\* candidate that resolved second.
C12_TieSecond ==
    \A t \in Caller : \A i, j \in 1..Len(balance.services) :
        LET first == balance.services[i]
            second == balance.services[j]
        IN  (i # j /\ first[2] = second[2]) =>
                Selected(t, first, second) =
                    [pc |-> "permit", permit |-> second,
                     lock |-> LockDropRead(balance.lock, t)]

\* C12 witness: two backends of equal load are registered and a caller
\* holds the permit of the second of them.
C12_Witness ==
    \E t \in Caller :
        /\ pc[t] = "permit"
        /\ Len(balance.services) = 2
        /\ balance.services[1][2] = balance.services[2][2]
        /\ permit[t] = balance.services[2]

\* C12 as stated: on equal loads the permit returned is the one of the
\* candidate that resolved first.
C12_TieFirst ==
    \A t \in Caller : \A i, j \in 1..Len(balance.services) :
        LET first == balance.services[i]
            second == balance.services[j]
        IN  (i # j /\ first[2] = second[2]) =>
                Selected(t, first, second).permit = first

\* The entries of the registry.
Registered == {balance.services[i] : i \in 1..Len(balance.services)}

C14_EmptyGuard ==
    /\ balance.services = <<>> => balance.lock.writer
    /\ \A t \in Caller : pc[t] # "panicked"

\* C15: the registry holds exactly what applying the changes one after the
\* other leaves: each key at most once, a key being present if and only if
\* the latest change for it was an Insert, then with the backend of that
\* Insert; after Insert(k, A), Insert(k, B), Remove(k) the key k is
\* absent; and a selection only returns the permit of a registered backend,
\* hence none of k.
C15_InOrder ==
    /\ \A i, j \in 1..Len(balance.services) :
            balance.services[i][1] = balance.services[j][1] => i = j
    /\ \A k \in Key :
            IF balance.expected[k] = 0
            THEN IndexOf(balance.services, k) = 0
            ELSE <<k, balance.expected[k]>> \in Registered
    /\ balance.pattern = 3 => \A e \in Registered : e[1] # 1
    /\ \A t \in Caller : \A ready \in SUBSET Key :
            LET r == BalanceInnerAcquire(balance, t, Candidates(balance, ready))
            IN  r.pc = "permit" => r.permit \in Registered

\* C15 witness: Insert(1, A), Insert(1, B), Remove(1) were the latest
\* changes applied and key 1 is absent, another backend is registered
\* and a caller has got its permit.
C15_Witness ==
    /\ balance.pattern = 3
    /\ IndexOf(balance.services, 1) = 0
    /\ balance.worker = "next"
    /\ \E t \in Caller :
        /\ pc[t] = "permit"
        /\ permit[t] \in Registered

\* C16: the worker has completed only if the change stream has ended, at
\* one of the two places where it sees the end (line 260 while draining
\* under the lock, line 276 while waiting for the next change), and then
\* its result is Err(Terminated); as long as the stream has not ended the
\* worker has no result.
C16_Terminated ==
    IF balance.worker = "done"
    THEN /\ balance.changes = "closed"
         /\ balance.output = <<"Err", "Terminated">>
         /\ balance.site \in {260, 276}
    ELSE /\ balance.changes = "open"
         /\ balance.output = <<>>

\* C16 witness: the worker saw the end of the stream while draining under
\* the lock, after changes that left a backend registered, and completed
\* with Terminated.
C16_Witness ==
    /\ balance.worker = "done"
    /\ balance.site = 260
    /\ balance.output = <<"Err", "Terminated">>
    /\ balance.services # <<>>

C18_ThreeCalls ==
    \A t \in Caller :
        stack = "retry_count" =>
            LET r == retry[t]
            IN  /\ r.calls <= MaxAttempts
                /\ Len(r.used) = r.calls
                /\ \A i \in 1..Len(r.used) : r.used[i] = i
                /\ r.acquires \in {r.calls, r.calls + 1}
                /\ pc[t] = "permit" => permit[t] = <<"retry", 1>> /\ r.acquires = 1
                /\ pc[t] = "done" => r.calls = MaxAttempts /\ r.acquires = MaxAttempts

\* C18 witness: a request has returned under that policy after
\* MaxAttempts inner calls, each with the permit of its own acquire.
C18_Witness ==
    \E t \in Caller :
        /\ stack = "retry_count"
        /\ pc[t] = "done"
        /\ retry[t].calls = MaxAttempts
        /\ retry[t].used = [i \in 1..MaxAttempts |-> i]

\* C19: Retry::acquire makes one inner acquire and no inner call; the
\* policy accepts at most once, and once it has, no further inner call or
\* acquire is made: the inner calls number one plus the retry verdicts,
\* and the result of Retry::call is Ok of the response of the last inner
\* call, the one the policy accepted.
C19_AcceptedResponse ==
    \A t \in Caller :
        IsRetry =>
            LET r == retry[t]
            IN  /\ pc[t] \in {"acquire", "permit"} => r.acquires = 1 /\ r.calls = 0
                /\ r.accepts <= 1
                /\ r.calls <= 1 + r.retries
                /\ r.accepts = 1 =>
                        /\ r.inner \in {"Classifying", "Returned"}
                        /\ r.calls = 1 + r.retries
                        /\ r.acquires = r.calls
                        /\ Len(r.responses) = r.calls
                        /\ r.response = r.responses[r.calls]
                /\ pc[t] = "done" =>
                        /\ r.accepts = 1
                        /\ result[t] = <<"Ok", r.responses[r.calls]>>
                        /\ result[t][2][1] = r.calls

\* C19 witness: a request has returned after retries, with the good
\* response of the last inner call, which the policy accepted.
C19_Witness ==
    \E t \in Caller :
        /\ stack = "retry_finite"
        /\ pc[t] = "done"
        /\ retry[t].retries >= 1
        /\ retry[t].calls = 1 + retry[t].retries
        /\ ~retry[t].gave_up
        /\ result[t] = <<"Ok", <<retry[t].calls, "good">>>>

\* C20: a request on which the policy gave up ends with Err of the error
\* of the policy for that request, and a request ends with Err in no other
\* case.
C20_PolicyError ==
    \A t \in Caller :
        (IsRetry /\ pc[t] = "done") =>
            IF retry[t].gave_up
            THEN result[t] = <<"Err", PolicyError(retry[t].state)>>
            ELSE result[t][1] = "Ok"

\* x waits in front of y in the queue q.
Before(q, x, y) ==
    \E i, j \in 1..Len(q) : i < j /\ q[i] = x /\ q[j] = y

Reserved(t) == pc[t] \in {"permit", "dropping", "calling"}

\* C22: while the inner reservation of a Leak permit is held, by the permit
\* or by the call it was moved into, the service behind the Arc has not
\* been destroyed.
C22_AliveWhileReserved ==
    \A t \in Task : Reserved(t) => arc.strong > 0

C24_PendingCalls ==
    stack = "load" => count = Cardinality({t \in Task : pc[t] = "calling"})

\* C25: acquire on Depressurize returns in the poll that starts it and
\* leaves the inner semaphore as it was, so that all the inner capacity in
\* use is in use by inner calls; a call that has not obtained the inner
\* permit has made no inner call, and one that has obtained it has made
\* exactly one.
C25_AcquireInsideCall ==
    /\ [][\A t \in Task :
            (stack = "depressurize" /\ pc[t] = "idle" /\ pc'[t] # "idle") =>
                /\ pc'[t] = "permit"
                /\ semaphore' = semaphore]_vars
    /\ [](stack = "depressurize" =>
            /\ semaphore.limit.permits + Cardinality(semaphore.limit.assigned)
                  + Cardinality({t \in Task : pc[t] = "calling"}) = n_permits
            /\ \A t \in Task :
                /\ pc[t] \in {"permit", "call_acquire"} => invoked[t] = 0
                /\ pc[t] \in {"calling", "done"} => invoked[t] = 1)

\* C25 witness: with every inner ticket in use one caller was handed the
\* closure all the same, and another has called it and is suspended inside
\* the call.
C25_Witness ==
    /\ stack = "depressurize"
    /\ semaphore.limit.permits = 0
    /\ \E t, u \in Task :
        /\ pc[t] = "permit"
        /\ pc[u] = "call_acquire"
        /\ InQueue(u, semaphore.limit.waiters)

\* t has an acquire pending on child c.
Pending(t, c) == InQueue(t, children[c].waiters) \/ t \in children[c].assigned

\* C26: a Select acquire returns the permit of the first child, in poll
\* order, whose acquire is ready in that poll; a caller with a permit or a
\* call holds a ticket of exactly one child and has no acquire pending on
\* any child; and every ticket of every child is free, assigned to a
\* pending acquire, or held by such a caller.
C26_FirstAvailable ==
    /\ [][\A t \in Task, c \in Child :
            (stack = "select" /\ pc[t] # "permit" /\ pc'[t] = "permit"
                /\ c \in held'[t]) =>
                    /\ SemPoll(children[c], t).ready
                    /\ \A d \in Child : SemPoll(children[d], t).ready => c <= d]_vars
    /\ [](stack = "select" =>
            /\ \A t \in Task :
                /\ pc[t] \in {"permit", "calling"} =>
                    /\ Cardinality(held[t]) = 1
                    /\ \A c \in Child : ~Pending(t, c)
                /\ pc[t] \notin {"permit", "calling"} => held[t] = {}
            /\ \A c \in Child :
                children[c].permits + Cardinality(children[c].assigned)
                    + Cardinality({t \in Task : c \in held[t]}) = n_permits)

\* C26 witness: a caller holds the permit of a child other than the first,
\* which had no ticket for it, while the acquire of another caller is
\* pending on every child.
C26_Witness ==
    /\ stack = "select"
    /\ \E t, u \in Task, c \in Child :
        /\ c # 1
        /\ pc[t] = "permit"
        /\ held[t] = {c}
        /\ pc[u] = "acquire"
        /\ \A d \in Child : Pending(u, d)

\* C27: a Steer permit holds a ticket of every child; a Steer call runs on
\* the child the picker picked for its request, once, holding the ticket of
\* that child and of no other; and every ticket of every child is free,
\* assigned to a pending acquire, or held in a join, a permit or a call.
C27_PickedChild ==
    stack = "steer" =>
        /\ \A t \in Task :
            /\ pc[t] = "permit" => held[t] = Child
            /\ pc[t] = "acquire" => held[t] # Child
            /\ pc[t] = "calling" =>
                /\ held[t] = {Pick(request[t])}
                /\ invoked[t] = 1
        /\ \A c \in Child :
            children[c].permits + Cardinality(children[c].assigned)
                + Cardinality({t \in Task : c \in held[t]}) = n_permits

\* C27 witness: a call runs holding the ticket of one child only, while a
\* second caller, whose acquire has obtained the ticket of another child,
\* still waits for that child.
C27_Witness ==
    /\ stack = "steer"
    /\ \E t, u \in Task, c \in Child :
        /\ pc[t] = "calling"
        /\ held[t] = {c}
        /\ pc[u] = "acquire"
        /\ held[u] # {}
        /\ c \notin held[u]
        /\ Pending(u, c)

\* t waits in ConcurrencyLimit::acquire for its ticket.
AwaitsTicket(t) ==
    InQueue(t, semaphore.limit.waiters) \/ t \in semaphore.limit.assigned

C29_RefillSpacing ==
    [][rate'.refills # rate.refills =>
            /\ rate'.refills = rate.refills + 1
            /\ rate'.last_update = clock']_vars

\* The step hands t its RateLimitPermit.
Resolves(t) == pc[t] # "permit" /\ pc'[t] = "permit"

\* C30: every suspended RateLimit acquire eventually returns its permit;
\* the acquire that returns has left the queue of the semaphore and the
\* refill loop, and when no refill happened in the step it took a ticket
\* that was assigned to it or a free one.
C30_ResolvesWithTicket ==
    /\ \A t \in 1..NumWaiters : (pc[t] = "acquire") ~> (pc[t] = "permit")
    /\ [][\A t \in 1..NumWaiters : Resolves(t) =>
            /\ ~InQueue(t, rate'.semaphore.waiters)
            /\ t \notin rate'.semaphore.assigned
            /\ rate'.guard # t
            /\ rate'.refills = rate.refills =>
                \/ /\ t \in rate.semaphore.assigned
                   /\ rate'.semaphore = [rate.semaphore EXCEPT !.assigned = @ \ {t}]
                \/ /\ rate.semaphore.permits > 0
                   /\ rate'.semaphore = [rate.semaphore EXCEPT !.permits = @ - 1]]_vars

\* C30 witness: after a refill an acquire is again suspended in the queue
\* of the semaphore with no ticket free, and runs the refill loop.
C30_Witness ==
    \E t \in Task :
        /\ pc[t] = "acquire"
        /\ rate.guard = t
        /\ rate.refills >= 1
        /\ rate.semaphore.permits = 0
        /\ InQueue(t, rate.semaphore.waiters)

\* C31: the semaphore of the RateLimit never has more than Permits tickets
\* available, free or assigned to a pending acquire.
C31_AtMostPermits ==
    stack = "rate" => Free(rate.semaphore) <= Permits

\* The pending RateLimit acquires.
Acquiring == {t \in Task : stack = "rate" /\ pc[t] = "acquire"}

\* C32: the lock of last_update has one holder at most, and the holder is a
\* pending acquire; every other pending acquire waits for the lock; the
\* holder gives the lock up only by resolving or by being abandoned, and the
\* lock then passes to the acquire that waited longest, so that while
\* acquires are pending one of them holds the lock or has been handed it.
C32_OneRefiller ==
    /\ [](stack = "rate" =>
            /\ rate.mutex.permits + Cardinality(rate.mutex.assigned)
                    + (IF rate.guard # 0 THEN 1 ELSE 0) = 1
            /\ rate.guard # 0 => rate.guard \in Acquiring
            /\ rate.mutex.assigned \subseteq Acquiring
            /\ \A t \in Acquiring :
                    \/ rate.guard = t
                    \/ t \in rate.mutex.assigned
                    \/ InQueue(t, rate.mutex.waiters)
            /\ Acquiring # {} => rate.guard # 0 \/ rate.mutex.assigned # {})
    /\ [][\A t \in Task : stack = "rate" /\ rate.guard = t /\ rate'.guard # t =>
            /\ pc'[t] \in {"permit", "idle"}
            /\ rate'.guard = 0
            /\ rate.mutex.waiters # <<>> =>
                    rate'.mutex.assigned = {Head(rate.mutex.waiters)}]_vars

\* C32 witness: after a refill the acquire that ran the refill loop has
\* ended and the lock has been handed to another pending acquire, which has
\* not been polled yet.
C32_Witness ==
    \E u \in Acquiring :
        /\ rate.guard = 0
        /\ rate.mutex.assigned = {u}
        /\ rate.refills >= 1

\* C33: an acquire of a Buffer whose inner acquire is ready at its first
\* poll returns an Eager permit at that poll, takes the ticket of the inner
\* service and leaves the semaphore of the Buffer as it was; so do the call
\* made with an Eager permit, from its start to its end or abandonment,
\* and the drop of an Eager permit.
C33_EagerNoSlot ==
    [][\A t \in Task : HasBuffer =>
        /\ pc[t] = "idle" /\ pc'[t] # "idle" /\ semaphore.limit.permits > 0 =>
                /\ pc'[t] = "permit"
                /\ Kind(permit'[t]) = "Eager"
        /\ pc[t] = "idle" /\ pc'[t] = "permit" /\ Kind(permit'[t]) = "Eager" =>
                /\ semaphore'.buffer = semaphore.buffer
                /\ semaphore'.limit = [semaphore.limit EXCEPT !.permits = @ - 1]
        /\ pc[t] \in {"permit", "calling"} /\ Kind(permit[t]) = "Eager"
                /\ pc'[t] # pc[t] =>
                /\ semaphore'.buffer = semaphore.buffer
                /\ pc[t] = "permit" => pc'[t] \in {"calling", "idle"}]_vars

\* C33 witness: a call made with an Eager permit has completed while
\* another task holds a Buffered permit and a third waits for a slot.
C33_Witness ==
    /\ HasBuffer
    /\ \E t, u, v \in Task :
        /\ pc[t] = "done" /\ Kind(permit[t]) = "Eager"
        /\ pc[u] = "permit" /\ Kind(permit[u]) = "Buffered"
        /\ pc[v] = "acquire"

\* The task t has an acquire pending on, or a ticket assigned by, the
\* semaphore of the ConcurrencyLimit.
AtLimit(t) ==
    t \in semaphore.limit.assigned \/ InQueue(t, semaphore.limit.waiters)

\* C34: a Buffered permit is obtained without a ticket of the inner service
\* and, while it is held, has no acquire pending on the inner service.  A
\* call made with it awaits the inner acquire with the slot still taken;
\* in the step in which the inner acquire resolves the slot is released,
\* the ticket taken and the inner call started.  When the permit is dropped
\* unused, or the call is abandoned while it awaits the inner acquire, the
\* slot is released, the task leaves the inner semaphore and the inner
\* service has as many tickets available as before.
C34_BufferedSlot ==
    /\ [](\A t \in Task : HasBuffer =>
            /\ pc[t] = "permit" /\ Kind(permit[t]) = "Buffered" => ~AtLimit(t)
            /\ AtLimit(t) => pc[t] = "call_acquire"
            /\ semaphore.buffer.permits + Cardinality(semaphore.buffer.assigned)
                 + Cardinality({u \in Task :
                        \/ pc[u] = "permit" /\ Kind(permit[u]) = "Buffered"
                        \/ pc[u] = "call_acquire"}) = capacity)
    /\ [][\A t \in Task : HasBuffer =>
            /\ pc[t] \in {"idle", "acquire"} /\ pc'[t] = "permit"
                    /\ Kind(permit'[t]) = "Buffered" =>
                    semaphore'.limit = semaphore.limit
            /\ pc[t] = "permit" /\ Kind(permit[t]) = "Buffered" /\ pc'[t] # "permit" =>
                \/ /\ pc'[t] = "call_acquire"
                   /\ semaphore'.buffer = semaphore.buffer
                   /\ semaphore'.limit.waiters = Append(semaphore.limit.waiters, t)
                   /\ invoked'[t] = invoked[t]
                \/ /\ pc'[t] = "calling"
                   /\ semaphore'.buffer = SemDropPermit(semaphore.buffer)
                   /\ semaphore'.limit = [semaphore.limit EXCEPT !.permits = @ - 1]
                   /\ invoked'[t] = invoked[t] + 1
                \/ /\ pc'[t] = "idle"
                   /\ semaphore'.buffer = SemDropPermit(semaphore.buffer)
                   /\ semaphore'.limit = semaphore.limit
            /\ pc[t] = "call_acquire" /\ pc'[t] # "call_acquire" =>
                \/ /\ pc'[t] = "calling"
                   /\ t \in semaphore.limit.assigned
                   /\ semaphore'.buffer = SemDropPermit(semaphore.buffer)
                   /\ semaphore'.limit = [semaphore.limit EXCEPT !.assigned = @ \ {t}]
                   /\ invoked'[t] = invoked[t] + 1
                \/ /\ pc'[t] = "idle"
                   /\ semaphore'.buffer = SemDropPermit(semaphore.buffer)
                   /\ ~AtLimit(t)'
                   /\ Free(semaphore'.limit) = Free(semaphore.limit)]_vars

\* C34 witness: a call made with a Buffered permit has started its inner
\* call and let its slot go, while a second such call still awaits the
\* inner acquire with its slot taken.
C34_Witness ==
    /\ HasBuffer
    /\ \E t, u \in Task :
        /\ pc[t] = "calling" /\ Kind(permit[t]) = "Buffered"
        /\ pc[u] = "call_acquire" /\ InQueue(u, semaphore.limit.waiters)

\* C35: for every acquire that holds the read guard and every registered
\* backend A, the selection in which A alone has resolved returns the
\* permit of A in that poll, whatever the loads; and the poll that wakes an
\* acquire suspended in the selection ends it with the permit of a
\* registered backend.
C35_FirstAlone ==
    /\ [](\A t \in Caller : \A i \in 1..Len(balance.services) :
            t \in balance.lock.readers =>
                LET r == BalanceInnerAcquire(balance, t, <<balance.services[i]>>)
                IN  /\ r.pc = "permit"
                    /\ r.permit = balance.services[i]
                    /\ t \notin r.lock.readers)
    /\ [](\A t \in Caller : \A i \in 1..Len(balance.services) :
            IsBalance /\ pc[t] = "select" => ENABLED BalanceSelect(t, i, i))
    /\ [][\A t \in Caller :
            IsBalance /\ pc[t] = "select" /\ pc'[t] # "select" =>
                /\ pc'[t] = "permit"
                /\ permit'[t] \in Registered]_vars

\* C35 witness: an acquire is suspended in the selection over two backends
\* of different loads, so that the one of higher load may resolve alone.
C35_Witness ==
    /\ IsBalance
    /\ \E t \in Caller :
        /\ pc[t] = "select"
        /\ t \in balance.lock.readers
        /\ Len(balance.services) >= 2
        /\ balance.services[1][2] # balance.services[2][2]

\* The tasks that hold a ticket of the backend c.
HoldersOf(c) == {t \in Task : c \in held[t]}

\* C36: at the return of a balancer acquire the caller holds the permit of
\* one backend; that backend has one ticket less available than before the
\* poll, every other backend has as many as before, and the caller is left
\* in no backend's queue and with no ticket assigned to it.  At all times
\* the tickets available and the tickets held add up to the limit of each
\* backend.
C36_OneBackend ==
    /\ [](stack = "p2c" =>
            /\ \A c \in Child :
                    Free(children[c]) + Cardinality(HoldersOf(c)) = n_permits
            /\ \A t \in Task :
                    Cardinality(held[t]) = IF pc[t] \in {"permit", "calling"} THEN 1 ELSE 0)
    /\ [][\A t \in Task : stack = "p2c" /\ pc[t] # "permit" /\ pc'[t] = "permit" =>
            \E s \in Child :
                /\ held'[t] = {s}
                /\ Free(children'[s]) = Free(children[s]) - 1
                /\ \A c \in Child :
                    /\ c # s => Free(children'[c]) = Free(children[c])
                    /\ t \notin children'[c].assigned
                    /\ ~InQueue(t, children'[c].waiters)]_vars

\* C36 witness: a balancer acquire has returned the permit of one backend
\* while another caller, still suspended, has been assigned the ticket of
\* another backend, which the first left behind.
C36_Witness ==
    /\ stack = "p2c"
    /\ \E t, u \in Task : \E c, d \in Child :
        /\ pc[t] = "permit" /\ held[t] = {c}
        /\ pc[u] = "acquire" /\ d # c /\ u \in children[d].assigned

\* The entries of the registry `services` under the keys other than k.
Others(services, k) ==
    {services[i] : i \in {j \in 1..Len(services) : services[j][1] # k}}

\* C37: for every registry the worker can be holding and every change, the
\* registry after Insert(k, s) holds the entry (k, s), the registry after
\* Remove(k) of an absent k is the same registry, the entries under the
\* other keys are the same before and after, and no key occurs twice in
\* the result; and the registry only ever changes by one such mutation.
C37_RegistryFrame ==
    /\ [](\A change \in Change :
            LET before == balance.services
                after == Mutate(before, change)
                k == change[2]
            IN  /\ change[1] = "Insert" =>
                        \E i \in 1..Len(after) : after[i] = <<k, change[3]>>
                /\ Others(after, k) = Others(before, k)
                /\ change[1] = "Remove" /\ IndexOf(before, k) = 0 => after = before
                /\ \A i, j \in 1..Len(after) : after[i][1] = after[j][1] => i = j)
    /\ [][balance'.services # balance.services =>
            \E change \in Change :
                balance'.services = Mutate(balance.services, change)]_vars

\* C37 witness: with another key registered, Insert(1, 1) and Insert(1, 2)
\* were the latest changes applied, and key 1 maps to backend 2.
C37_Witness ==
    /\ IsBalance
    /\ balance.pattern = 2
    /\ Len(balance.services) = 2
    /\ <<1, 2>> \in Registered

\* The tasks that read the registry in the step: selectors that poll their
\* candidates and load_profile readers that collect the loads.
Reads(t) ==
    \/ pc[t] \in {"idle", "read", "select"} /\ pc'[t] \in {"select", "permit", "panicked"}
    \/ pc[t] \in {"idle", "profile"} /\ pc'[t] = "done"

\* C38: a read guard and the write guard are never out together, and the
\* worker holds the write guard from its first mutation of a batch to the
\* end of the batch; the registry changes only under the write guard, with
\* no reader in; and a reader reads under a read guard, between batches:
\* it sees the registry as the last batch left it, a load_profile reader
\* the loads of exactly those backends.
C38_Isolation ==
    /\ [](IsBalance =>
            /\ balance.lock.writer => balance.lock.readers = {}
            /\ balance.worker = "drain" => balance.lock.writer
            /\ \A t \in Caller : pc[t] = "select" => t \in balance.lock.readers)
    /\ [][IsBalance /\ balance'.services # balance.services =>
            /\ balance.lock.readers = {}
            /\ balance.lock.writer \/ balance.worker = "next"
            /\ balance'.lock.writer
            /\ balance'.lock.readers = {}
            /\ balance'.worker = "drain"]_vars
    /\ [][\A t \in Caller : IsBalance /\ Reads(t) =>
            /\ ~balance.lock.writer
            /\ balance.worker # "drain"
            /\ balance'.services = balance.services
            /\ pc'[t] = "done" =>
                    /\ Len(result'[t]) = Len(balance.services)
                    /\ \A i \in 1..Len(balance.services) :
                            result'[t][i] = balance.services[i][2]]_vars

\* C38 witness: a load_profile reader waits for the read guard while the
\* worker, in the middle of a batch, holds the write guard and has two
\* backends registered.
C38_Witness ==
    /\ IsBalance
    /\ balance.worker = "drain"
    /\ Len(balance.services) = 2
    /\ \E t \in Caller : pc[t] = "profile" /\ InQueue(t, balance.lock.waiters)

\* The selectors suspended on their candidates.
Selecting == {t \in Caller : IsBalance /\ pc[t] = "select"}

\* C39: a selector suspended on its candidates holds a read guard, so the
\* write guard is not out and the worker is not in a batch; no step taken
\* while a selector is suspended changes the registry, a worker that has a
\* change to apply waits for the lock; the guard is given back in the step
\* in which the acquire returns, and the permit returned is the permit of
\* a backend that is in the registry after that step.
C39_GuardedSelection ==
    /\ [](\A t \in Selecting :
            /\ t \in balance.lock.readers
            /\ ~balance.lock.writer
            /\ balance.worker \in {"next", "write", "done"}
            /\ balance.worker = "write" => InQueue(Worker, balance.lock.waiters))
    /\ [][Selecting # {} => balance'.services = balance.services]_vars
    /\ [][\A t \in Caller : IsBalance /\ pc[t] # "permit" /\ pc'[t] = "permit" =>
            /\ permit'[t] \in Registered'
            /\ balance'.services = balance.services
            /\ t \notin balance'.lock.readers]_vars

\* C39 witness: while a selector is suspended on its candidates the worker
\* has received a change and waits for the write guard.
C39_Witness ==
    \E t \in Selecting :
        /\ balance.worker = "write"
        /\ balance.new_change # <<>>
        /\ InQueue(Worker, balance.lock.waiters)

\* C40: the worker in a batch holds the write guard, and as long as the
\* stream yields another change at once it applies it and stays in the
\* batch with the guard; while the write guard is out no acquire returns a
\* permit or gets to its candidates.  The write guard is given back only in
\* the step in which the worker finds the stream pending with a non-empty
\* registry, which always gives it back, or in the step in which the stream
\* ends; found pending with an empty registry, the worker retains it.
C40_Starvation ==
    /\ [](IsBalance /\ balance.worker = "drain" =>
            /\ balance.lock.writer
            /\ \A t \in Caller : pc[t] \in {"idle", "read", "permit", "panicked"})
    /\ [][IsBalance /\ balance.worker = "drain" /\ balance'.worker = "drain" =>
            balance'.lock.writer]_vars
    /\ [][IsBalance /\ balance.lock.writer =>
            \A t \in Caller :
                pc'[t] \in {"select", "permit", "panicked"} => pc'[t] = pc[t]]_vars
    /\ [][IsBalance /\ balance.lock.writer /\ ~balance'.lock.writer =>
            \/ /\ balance.worker = "drain" /\ balance'.worker = "next"
               /\ balance.services # <<>>
               /\ balance'.services = balance.services
            \/ /\ balance'.worker = "done"
               /\ balance'.changes = "closed"]_vars
    /\ [][IsBalance /\ balance.worker = "drain" /\ balance'.worker = "next" =>
            /\ balance'.services = balance.services
            /\ balance'.lock.writer <=> balance.services = <<>>
            /\ balance'.empty_guard <=> balance.services = <<>>]_vars

\* C40 witness: the worker is in a batch in which it has applied
\* Insert(1, 1), Insert(1, 2) and Remove(1) as its latest changes, another
\* backend is registered, and an acquire waits for the read guard.
C40_Witness ==
    /\ IsBalance
    /\ balance.worker = "drain"
    /\ balance.pattern = 3
    /\ balance.services # <<>>
    /\ \E t \in Caller : pc[t] = "read" /\ InQueue(t, balance.lock.waiters)
====
